---- MODULE Spec2Model ----
(***************************************************************************)
(* Layout / composition engine of pubplot (src/pubplot/base.py): the       *)
(* Figure's panel factory, the share / span relationship links between     *)
(* axes, and the draw-time tight-layout pass.                              *)
(*                                                                         *)
(* Lengths are integers in hundredths of an inch.  A figure-fraction       *)
(* coordinate is a pair <<num, den>> (num / den), compared by cross        *)
(* multiplication.  Axes are named by their 1-based index in Figure.axes.  *)
(***************************************************************************)
EXTENDS Integers, Sequences, FiniteSets, TLC

VARIABLES
    fig,        \* attributes of the Figure object
    skw,        \* Figure._subplots_kw, the layout settings
    gridspec,   \* parameters of Figure._gridspec, the top-level grid
    canvas,     \* physical canvas size, <<width, height>>
    axes,       \* Figure.axes, in creation order
    gspecs,     \* nested gridspecs built by panel_factory
    sharedx,    \* Axes._shared_x_axes (a Grouper): set of disjoint groups
    sharedy,    \* Axes._shared_y_axes
    bbox,       \* what the backend measures: gaps content / canvas edges
    req,        \* the pending request of a caller (arguments of a call)
    last,       \* outcome of the last operation, as its caller sees it
    nops        \* number of operations applied so far

vars == <<fig, skw, gridspec, canvas, axes, gspecs, sharedx, sharedy, bbox, req, last, nops>>

----------------------------------------------------------------------------
(* Bounds of the model *)

MaxOps == 3         \* link operations applied to one figure
MaxWhich == 4       \* length of a whichpanels string

----------------------------------------------------------------------------
(* References *)

NoneRef == 0        \* Python None
EmptyPanel == 0 - 1 \* the falsy EmptyPanel placeholder

Truthy(p) == p > 0  \* an axes is truthy; None and EmptyPanel are falsy

Min(S) == CHOOSE x \in S : \A y \in S : x <= y
Max(S) == CHOOSE x \in S : \A y \in S : x >= y

Range(s) == {s[i] : i \in 1..Len(s)}

----------------------------------------------------------------------------
(* matplotlib.cbook.Grouper, as used by _shared_x_axes / _shared_y_axes *)

GroupOf(g, a) == IF \E s \in g : a \in s THEN CHOOSE s \in g : a \in s ELSE {a}

join(g, a, b) ==
    (g \ {GroupOf(g, a), GroupOf(g, b)}) \cup {GroupOf(g, a) \cup GroupOf(g, b)}

joined(g, a, b) == \E s \in g : a \in s /\ b \in s

----------------------------------------------------------------------------
(* The top-level grid.  gridspec (the parameters held by Figure._gridspec): *)
(* left/right/bottom/top are the distances, in physical units, from the    *)
(* canvas edges to the block of main axes; axw/axh the total extent of the *)
(* cells; width/height the canvas size the fractions refer to.             *)

RECURSIVE SumTo(_, _)
SumTo(s, n) == IF n = 0 THEN 0 ELSE s[n] + SumTo(s, n - 1)

Sum(s) == SumTo(s, Len(s))

\* x coordinates are counted in units of 1 / (Sum(wratios) * width) of the
\* canvas width, y coordinates in 1 / (Sum(hratios) * height) of its height.
XDen(g) == Sum(g.wratios) * g.width
YDen(g) == Sum(g.hratios) * g.height

\* left edge and width of column c (0-based, from the left)
CellX0(g, c) ==
    Sum(g.wratios) * g.left + g.axw * SumTo(g.wratios, c) + Sum(g.wratios) * c * g.wspace
CellW(g, c) == g.axw * g.wratios[c + 1]

\* lower edge and height of row r (0-based, from the top)
CellY0(g, r) ==
    Sum(g.hratios) * g.bottom + g.axh * (Sum(g.hratios) - SumTo(g.hratios, r + 1))
        + Sum(g.hratios) * (g.nrows - 1 - r) * g.hspace
CellH(g, r) == g.axh * g.hratios[r + 1]

\* Axes.get_position(): the extent of an axes in the units above.  An axes of
\* a nested grid lies at an offset inside its top-level cell that scales with
\* the cell.
PosXmin(g, a) == CellX0(g, a.cell[2]) + (a.offx * CellW(g, a.cell[2])) \div a.cw0
PosXmax(g, a) == PosXmin(g, a) + (a.w * CellW(g, a.cell[2])) \div a.cw0
PosYmin(g, a) == CellY0(g, a.cell[1]) + (a.offy * CellH(g, a.cell[1])) \div a.ch0
PosYmax(g, a) == PosYmin(g, a) + (a.h * CellH(g, a.cell[1])) \div a.ch0

\* equality of two fractions
FracEq(p, q) == p[1] * q[2] = q[1] * p[2]

NoPos == <<0, 0>>   \* a label still at its default, axes-relative position

----------------------------------------------------------------------------
(* BaseAxes.__init__: the attributes of a new axes *)

NewAxes(kind, side, parent, gs, r, c, cell, off) ==
    [ kind |-> kind, panelside |-> side, panelparent |-> parent,
      gs |-> gs, rows |-> <<r, r>>, cols |-> <<c, c>>, cell |-> cell,
      offx |-> off.x, offy |-> off.y, w |-> off.w, h |-> off.h,
      cw0 |-> off.cw, ch0 |-> off.ch,
      bottompanel |-> EmptyPanel, toppanel |-> EmptyPanel,
      leftpanel |-> EmptyPanel, rightpanel |-> EmptyPanel,
      spanx |-> NoneRef, spany |-> NoneRef,
      spanx_group |-> <<>>, spany_group |-> <<>>,
      sharex |-> NoneRef, sharey |-> NoneRef,
      xlabel_visible |-> TRUE, ylabel_visible |-> TRUE,
      xticklabels_visible |-> TRUE, yticklabels_visible |-> TRUE,
      xlabel_fig |-> FALSE, ylabel_fig |-> FALSE,
      xlabel_pos |-> NoPos, ylabel_pos |-> NoPos,
      title_text |-> FALSE, title_inside |-> FALSE, title_out |-> TRUE,
      collabel_text |-> "", rowlabel_text |-> "",
      rowlabel_visible |-> TRUE,
      rowlabel_pos |-> [set |-> FALSE, fig |-> FALSE, pos |-> NoPos],
      invisible |-> FALSE, content |-> "", recurred |-> FALSE ]

\* PanelAxes.invisible (lines 1723-1729): spines, axes and patch are hidden
panel_invisible(a) == [a EXCEPT !.invisible = TRUE]

\* mutant: a panel is hidden when it is created
panel_init_hidden(a, invisible) == panel_invisible(a)

\* PanelAxes.__init__ (lines 1714-1721), after BaseAxes.__init__
panel_init(a, invisible) == IF invisible THEN panel_invisible(a) ELSE a

\* an axes that fills its top-level cell
WholeCell == [x |-> 0, y |-> 0, w |-> 1, h |-> 1, cw |-> 1, ch |-> 1]

----------------------------------------------------------------------------
(* Share links.  A world w is [axes, sx, sy]: the axes and the two Groupers. *)

World(ax, sx, sy) == [axes |-> ax, sx |-> sx, sy |-> sy]

\* mutant: the axes are not joined in the Grouper
sharex_builtin_nojoin(w, self, sharex) ==
    [w EXCEPT !.axes[self].sharex = sharex,
              !.axes[self].xticklabels_visible = FALSE,
              !.axes[self].xlabel_visible = FALSE]

\* lines 1050-1058: the part of _sharex_setup after the panel propagation
sharex_builtin(w, self, sharex) ==
    [w EXCEPT !.axes[self].sharex = sharex,
              !.sx = join(w.sx, self, sharex),
              !.axes[self].xticklabels_visible = FALSE,
              !.axes[self].xlabel_visible = FALSE]

sharey_builtin(w, self, sharey) ==
    [w EXCEPT !.axes[self].sharey = sharey,
              !.sy = join(w.sy, self, sharey),
              !.axes[self].yticklabels_visible = FALSE,
              !.axes[self].ylabel_visible = FALSE]

\* mutant: no test for an axes shared with itself
sharex_setup_selflink(w, self, sharex) ==
    IF sharex = NoneRef THEN w ELSE sharex_builtin(w, self, sharex)

RECURSIVE sharex_setup(_, _, _)
sharex_setup(w, self, sharex) ==
    IF sharex = NoneRef THEN w
    ELSE IF self = sharex THEN w
    ELSE
      LET a == w.axes[self]
          s == w.axes[sharex]
          w1 == IF Truthy(a.leftpanel) /\ Truthy(s.leftpanel)
                THEN sharex_setup(w, a.leftpanel, s.leftpanel) ELSE w
          w2 == IF Truthy(a.rightpanel) /\ Truthy(s.rightpanel)
                THEN sharex_setup(w1, a.rightpanel, s.rightpanel) ELSE w1
          w3 == IF Truthy(a.bottompanel) /\ sharex # a.bottompanel
                THEN sharex_setup(w2, a.bottompanel, sharex) ELSE w2
          w4 == IF Truthy(a.toppanel) /\ sharex # a.toppanel
                THEN sharex_setup(w3, a.toppanel, sharex) ELSE w3
      IN sharex_builtin(w4, self, sharex)

RECURSIVE sharey_setup(_, _, _)
sharey_setup(w, self, sharey) ==
    IF sharey = NoneRef THEN w
    ELSE IF self = sharey THEN w
    ELSE
      LET a == w.axes[self]
          s == w.axes[sharey]
          w1 == IF Truthy(a.bottompanel) /\ Truthy(s.bottompanel)
                THEN sharey_setup(w, a.bottompanel, s.bottompanel) ELSE w
          w2 == IF Truthy(a.toppanel) /\ Truthy(s.toppanel)
                THEN sharey_setup(w1, a.toppanel, s.toppanel) ELSE w1
          w3 == IF Truthy(a.leftpanel)
                THEN sharey_setup(w2, a.leftpanel, sharey) ELSE w2
          w4 == IF Truthy(a.rightpanel)
                THEN sharey_setup(w3, a.rightpanel, sharey) ELSE w3
      IN sharey_builtin(w4, self, sharey)

\* the exception a share setup raises to its caller ("" when it returns)
sharex_raises(w, self, sharex) == ""
sharey_raises(w, self, sharey) == ""

----------------------------------------------------------------------------
(* Span links.  A span setup returns the new axes and the exception it     *)
(* raised ("" when it returned).                                           *)

\* why min() / max() over the positions of the group fails, if it does
span_position_error(group) ==
    IF group = <<>> THEN "ValueError"                       \* min() of nothing
    ELSE IF \E i \in 1..Len(group) : group[i] = EmptyPanel THEN "NotImplementedError"
    ELSE IF \E i \in 1..Len(group) : group[i] = NoneRef THEN "AttributeError"
    ELSE ""

\* mutant: the label of a member that is not the owner is shown, as in
\* _spany_setup
spanx_members_shown(ax, self, group) ==
    [i \in DOMAIN ax |->
        IF i \in Range(group)
        THEN [ax[i] EXCEPT !.spanx = self, !.spanx_group = group,
                           !.xlabel_visible = IF i # self THEN TRUE ELSE @]
        ELSE ax[i]]

\* mutant: an axes that has a span group keeps it
spanx_members_keep(ax, self, group) ==
    [i \in DOMAIN ax |->
        IF i \in Range(group) /\ ax[i].spanx = NoneRef
        THEN [ax[i] EXCEPT !.spanx = self, !.spanx_group = group,
                           !.xlabel_visible = (i = self)]
        ELSE ax[i]]

\* lines 1006-1013: the loop over the group
spanx_members(ax, self, group) ==
    [i \in DOMAIN ax |->
        IF i \in Range(group)
        THEN [ax[i] EXCEPT !.spanx = self, !.spanx_group = group,
                           !.xlabel_visible = (i = self)]
        ELSE ax[i]]

\* lines 1026-1030
spany_members(ax, self, group) ==
    [i \in DOMAIN ax |->
        IF i \in Range(group)
        THEN [ax[i] EXCEPT !.spany = self, !.spany_group = group,
                           !.ylabel_visible = IF i # self THEN TRUE ELSE @]
        ELSE ax[i]]

\* lines 1002-1004: the label goes to the middle of the combined extent
spanx_midpoint(g, ax, group) ==
    << Min({PosXmin(g, ax[group[i]]) : i \in 1..Len(group)})
         + Max({PosXmax(g, ax[group[i]]) : i \in 1..Len(group)}),
       2 * XDen(g) >>

spany_midpoint(g, ax, group) ==
    << Min({PosYmin(g, ax[group[i]]) : i \in 1..Len(group)})
         + Max({PosYmax(g, ax[group[i]]) : i \in 1..Len(group)}),
       2 * YDen(g) >>

spanx_setup(g, ax, self, group) ==
    LET ax1 == [ax EXCEPT ![self].xlabel_fig = TRUE]
        err == span_position_error(group)
    IN IF err # "" THEN [axes |-> ax1, raised |-> err]
       ELSE [axes |-> spanx_members(
                        [ax1 EXCEPT ![self].xlabel_pos = spanx_midpoint(g, ax, group)],
                        self, group),
             raised |-> ""]

spany_setup(g, ax, self, group) ==
    LET ax1 == [ax EXCEPT ![self].ylabel_fig = TRUE]
        err == span_position_error(group)
    IN IF err # "" THEN [axes |-> ax1, raised |-> err]
       ELSE [axes |-> spany_members(
                        [ax1 EXCEPT ![self].ylabel_pos = spany_midpoint(g, ax, group)],
                        self, group),
             raised |-> ""]

----------------------------------------------------------------------------
(* Figure.panel_factory.  A whichpanels argument is a sequence of          *)
(* characters; None is WhichNone, and a full side name is the one-element  *)
(* sequence holding the name.                                              *)

NoArg == 0 - 1                  \* a numeric argument left at None
WhichNone == <<"None">>

fill(x, default) == IF x = NoArg THEN default ELSE x    \* utils.fill

DefaultSpace == 13              \* 0.13 in
DefaultWidth == 30              \* 0.3 in

Lower(ch) ==
    IF ch = "L" THEN "l" ELSE IF ch = "R" THEN "r"
    ELSE IF ch = "B" THEN "b" ELSE IF ch = "T" THEN "t" ELSE ch

\* lines 752-754
pf_translate(which) ==
    LET t == IF which = <<"bottom">> THEN <<"b">>
             ELSE IF which = <<"top">> THEN <<"t">>
             ELSE IF which = <<"right">> THEN <<"r">>
             ELSE IF which = <<"left">> THEN <<"l">>
             ELSE which
    IN IF t = WhichNone \/ t = <<>> THEN <<"r">> ELSE t

\* mutant: only the first character is validated
pf_invalid_first(wp) == Len(wp) > 0 /\ Lower(wp[1]) \notin {"l", "r", "b", "t"}

\* line 759
pf_invalid(wp) == \E i \in 1..Len(wp) : Lower(wp[i]) \notin {"l", "r", "b", "t"}

Count(wp, chars) == Cardinality({i \in 1..Len(wp) : wp[i] \in chars})

\* lines 763-766
pf_nrows(wp) == 1 + Count(wp, {"b", "t"})
pf_ncols(wp) == 1 + Count(wp, {"l", "r"})
pf_sides(order, wp) ==
    LET keep(l) == l = "" \/ l \in Range(wp) IN SelectSeq(order, keep)
pf_sides_lr(wp) == pf_sides(<<"l", "", "r">>, wp)

\* mutant: the rows are walked from the bottom
pf_sides_bt(wp) == pf_sides(<<"b", "", "t">>, wp)

pf_sides_tb(wp) == pf_sides(<<"t", "", "b">>, wp)

BoolInt(b) == IF b THEN 1 ELSE 0

\* mutant: no position is left empty
pf_empty_pos_none(wp) == {}

\* lines 768-772; positions are <<row, column>>, 0-based
pf_main_pos(wp) == << BoolInt("t" \in Range(wp)), BoolInt("l" \in Range(wp)) >>
pf_empty_pos(wp) ==
    LET m == pf_main_pos(wp)
        has(a, b) == a \in Range(wp) /\ b \in Range(wp)
    IN    (IF has("t", "l") THEN {<<0, 0>>} ELSE {})
     \cup (IF has("t", "r") THEN {<<0, m[2] + 1>>} ELSE {})
     \cup (IF has("b", "l") THEN {<<m[1] + 1, 0>>} ELSE {})
     \cup (IF has("b", "r") THEN {<<m[1] + 1, m[2] + 1>>} ELSE {})

\* mutant: the main axes keeps the whole extent
pf_main_size_whole(n, size, panel) == size

\* lines 787, 793: what the panels leave to the main axes
pf_main_size(n, size, panel) == size - panel * (n - 1)

\* lines 787-798: the ratios along one direction, main entry at index main
pf_ratios(n, main, size, panel) ==
    [i \in 1..n |-> IF i - 1 # main THEN panel ELSE pf_main_size(n, size, panel)]

\* lines 788, 794: the test that rejects a panel that does not fit
pf_too_large(mainsize) == mainsize < 0

\* lines 822-829: the cells that get a panel, in the order of the two loops
pf_side_name(s) ==
    IF s = "b" THEN "bottom" ELSE IF s = "t" THEN "top"
    ELSE IF s = "l" THEN "left" ELSE IF s = "r" THEN "right" ELSE ""

RECURSIVE pf_panel_cells(_, _, _)
pf_panel_cells(wp, r, c) ==
    LET tb == pf_sides_tb(wp)
        lr == pf_sides_lr(wp)
    IN IF r >= Len(tb) THEN <<>>
       ELSE IF c >= Len(lr) THEN pf_panel_cells(wp, r + 1, 0)
       ELSE IF <<r, c>> \in pf_empty_pos(wp) \/ <<r, c>> = pf_main_pos(wp)
            THEN pf_panel_cells(wp, r, c + 1)
       ELSE << [r |-> r, c |-> c,
                side |-> pf_side_name(IF tb[r + 1] # "" THEN tb[r + 1] ELSE lr[c + 1])] >>
            \o pf_panel_cells(wp, r, c + 1)

\* FlexibleGridSpecFromSubplotSpec(...): the nested grid
NestedGridSpec(nrows, ncols, subspec, wspace, hspace, wratios, hratios) ==
    [nrows |-> nrows, ncols |-> ncols, subplot_spec |-> subspec,
     wspace |-> wspace, hspace |-> hspace,
     width_ratios |-> wratios, height_ratios |-> hratios]

\* where cell <<r, c>> of a nested grid lies in its top-level cell: every
\* cell gets its ratio of the extent left after the spacing, and the ratios
\* of panel_factory add up to that extent.
NestedOffset(wratios, hratios, wsp, hsp, r, c, cw, ch) ==
    [x |-> SumTo(wratios, c) + c * wsp,
     y |-> (Sum(hratios) - SumTo(hratios, r + 1)) + (Len(hratios) - 1 - r) * hsp,
     w |-> wratios[c + 1], h |-> hratios[r + 1], cw |-> cw, ch |-> ch]

\* line 777 with lines 779, 782: the physical size of the target cell, from
\* its fraction of the canvas and the figure's width / height attributes
SubspecWidth(f, g, cell) == (CellW(g, cell[2]) * f.width) \div XDen(g)
SubspecHeight(f, g, cell) == (CellH(g, cell[1]) * f.height) \div YDen(g)

\* lines 834-837
pf_slot(firstpanel, cells, side) ==
    IF \E i \in 1..Len(cells) : cells[i].side = side
    THEN firstpanel - 1 + Max({i \in 1..Len(cells) : cells[i].side = side})
    ELSE NoneRef

\* st is [axes, sx, sy, gspecs]; a is the record of arguments
panel_factory(f, g, st, a) ==
    LET wp == pf_translate(a.whichpanels)
        hspace == fill(a.hspace, DefaultSpace)
        wspace == fill(a.wspace, DefaultSpace)
        hwidth == fill(a.hwidth, DefaultWidth)
        wwidth == fill(a.wwidth, DefaultWidth)
        nrows == pf_nrows(wp)
        ncols == pf_ncols(wp)
        main == pf_main_pos(wp)
        cw == SubspecWidth(f, g, a.subspec)
        ch == SubspecHeight(f, g, a.subspec)
        height == ch - hspace * (nrows - 1)
        width == cw - wspace * (ncols - 1)
        wratios == pf_ratios(ncols, main[2], width, wwidth)
        hratios == pf_ratios(nrows, main[1], height, hwidth)
        gs == NestedGridSpec(nrows, ncols, a.subspec,
                             <<wspace * ncols, width>>, <<hspace * nrows, height>>,
                             wratios, hratios)
        k == Len(st.gspecs) + 1
        off(r, c) == NestedOffset(wratios, hratios, wspace, hspace, r, c, cw, ch)
        axmain == Len(st.axes) + 1
        cells == pf_panel_cells(wp, 0, 0)
        mainax == NewAxes("base", "", NoneRef, k, main[1], main[2], a.subspec,
                          off(main[1], main[2]))
        panels == [i \in 1..Len(cells) |->
                    panel_init(
                        NewAxes("panel", cells[i].side, axmain, k, cells[i].r, cells[i].c,
                                a.subspec, off(cells[i].r, cells[i].c)),
                        FALSE)]
        slotted == [mainax EXCEPT
                      !.bottompanel = pf_slot(axmain + 1, cells, "bottom"),
                      !.toppanel = pf_slot(axmain + 1, cells, "top"),
                      !.leftpanel = pf_slot(axmain + 1, cells, "left"),
                      !.rightpanel = pf_slot(axmain + 1, cells, "right")]
        w0 == World(st.axes \o <<slotted>> \o panels, st.sx, st.sy)
        w1 == sharex_setup(w0, axmain, a.sharex)
        w2 == sharey_setup(w1, axmain, a.sharey)
    IN IF pf_invalid(wp)
          \/ pf_too_large(pf_main_size(ncols, width, wwidth))
          \/ pf_too_large(pf_main_size(nrows, height, hwidth))
       THEN [raised |-> "ValueError", st |-> st, axmain |-> NoneRef]
       ELSE [raised |-> "",
             st |-> [axes |-> w2.axes, sx |-> w2.sx, sy |-> w2.sy,
                     gspecs |-> Append(st.gspecs, gs)],
             axmain |-> axmain]

----------------------------------------------------------------------------
(* The layout settings (Figure._subplots_kw) and _gridspec_kwargs, which   *)
(* resolves them to the canvas size and the parameters of the grid.  With  *)
(* fixed = TRUE the canvas size is given and the axes get what the margins *)
(* leave; otherwise the axes sizes are given and the canvas follows.       *)

Settings(nrows, ncols, fixed, size, margin, space, panels) ==
    [none |-> FALSE, nrows |-> nrows, ncols |-> ncols, fixed |-> fixed,
     width |-> size[1], height |-> size[2],
     axwidth |-> size[1], axheight |-> size[2],
     left |-> margin, right |-> margin, bottom |-> margin, top |-> margin,
     lspace |-> space, rspace |-> space, bspace |-> space,
     lwidth |-> DefaultWidth, rwidth |-> DefaultWidth, bwidth |-> DefaultWidth,
     lpanel |-> "l" \in panels, rpanel |-> "r" \in panels, bpanel |-> "b" \in panels,
     wspace |-> space, hspace |-> space,
     wratios |-> [i \in 1..ncols |-> 1], hratios |-> [i \in 1..nrows |-> 1]]

NoSettings == [none |-> TRUE]

gridspec_kwargs(k) ==
    LET lextra == IF k.lpanel THEN k.lwidth + k.lspace ELSE 0
        rextra == IF k.rpanel THEN k.rwidth + k.rspace ELSE 0
        bextra == IF k.bpanel THEN k.bwidth + k.bspace ELSE 0
        wgaps == (k.ncols - 1) * k.wspace + k.left + lextra + rextra + k.right
        hgaps == (k.nrows - 1) * k.hspace + k.bottom + bextra + k.top
        axw == IF k.fixed THEN k.width - wgaps ELSE k.ncols * k.axwidth
        axh == IF k.fixed THEN k.height - hgaps ELSE k.nrows * k.axheight
    IN [raised |-> IF axw <= 0 \/ axh <= 0 THEN "ValueError" ELSE "",
        figsize |-> <<axw + wgaps, axh + hgaps>>,
        kw |-> [none |-> FALSE, nrows |-> k.nrows, ncols |-> k.ncols,
                left |-> k.left + lextra, right |-> k.right + rextra,
                bottom |-> k.bottom + bextra, top |-> k.top,
                wspace |-> k.wspace, hspace |-> k.hspace,
                axw |-> axw, axh |-> axh,
                width |-> axw + wgaps, height |-> axh + hgaps,
                wratios |-> k.wratios, hratios |-> k.hratios]]

\* FlexibleGridSpec.update(**gridspec_kw): the grid takes the new parameters
gridspec_update(g, kw) == kw

NoGridSpec == [none |-> TRUE]

----------------------------------------------------------------------------
(* Figure.__init__ *)

PanelObj == 1       \* a figure panel, when subplots() has assigned one

FigureInit(figsize, tight, pad, panels) ==
    [width |-> figsize[1], height |-> figsize[2],
     rcreset |-> TRUE, smart_pad |-> pad,
     smart_tight |-> tight, smart_tight_init |-> TRUE,
     leftpanel |-> IF "l" \in panels THEN PanelObj ELSE EmptyPanel,
     bottompanel |-> IF "b" \in panels THEN PanelObj ELSE EmptyPanel,
     rightpanel |-> IF "r" \in panels THEN PanelObj ELSE EmptyPanel,
     toppanel |-> EmptyPanel,
     has_suptitle |-> FALSE,
     suptitle |-> [x |-> NoPos, y |-> NoPos]]

\* Figure.add_subplot(gridspec[r, c]): an axes filling a top-level cell
add_subplot(ax, r, c) ==
    Append(ax, NewAxes("base", "", NoneRef, 0, r, c, <<r, c>>, WholeCell))

NoBbox == [x1 |-> 0, y1 |-> 0, x2 |-> 0, y2 |-> 0]
NoReq == [op |-> "none"]
NoLast == [op |-> "init", raised |-> ""]

----------------------------------------------------------------------------
(* Specification SpecLink: share and span links on a built figure.  The    *)
(* figure is a 2 x 2 grid with axes a and b in the top row, built by       *)
(* panel_factory with the panels the initial state chooses, and the plain  *)
(* axes c below a.  The x links and the y links of a figure live in        *)
(* disjoint attributes (_sharex, _spanx, the x Grouper and the x labels;   *)
(* their y counterparts), and a share or span setup reads and writes those *)
(* of its own axis only, so a run links along one axis, req.axis, which    *)
(* the initial state chooses.                                              *)

LinkSettings == Settings(2, 2, FALSE, <<300, 200>>, 50, 20, {})

PanelArgs(cell, which, hspace, wspace, hwidth, wwidth) ==
    [subspec |-> cell, whichpanels |-> which, hspace |-> hspace, wspace |-> wspace,
     hwidth |-> hwidth, wwidth |-> wwidth, sharex |-> NoneRef, sharey |-> NoneRef]

LinkPanelsA == { <<"b", "l">> }
LinkPanelsB == { <<"b", "r">>, <<"l", "r">> }

EmptyState == [axes |-> <<>>, sx |-> {}, sy |-> {}, gspecs |-> <<>>]

InitLink ==
    \E wa \in LinkPanelsA, wb \in LinkPanelsB :
      LET r == gridspec_kwargs(LinkSettings)
          f == FigureInit(r.figsize, TRUE, 10, {})
          s1 == panel_factory(f, r.kw, EmptyState,
                              PanelArgs(<<0, 0>>, wa, NoArg, NoArg, NoArg, NoArg)).st
          s2 == panel_factory(f, r.kw, s1,
                              PanelArgs(<<0, 1>>, wb, NoArg, NoArg, NoArg, NoArg)).st
      IN /\ fig = f
         /\ skw = LinkSettings
         /\ gridspec = r.kw
         /\ canvas = r.figsize
         /\ axes = add_subplot(s2.axes, 1, 0)
         /\ gspecs = s2.gspecs
         /\ sharedx = s2.sx
         /\ sharedy = s2.sy
         /\ bbox = NoBbox
         /\ req \in {[op |-> "link", axis |-> "x"], [op |-> "link", axis |-> "y"]}
         /\ last = NoLast
         /\ nops = 0

Mains == {i \in 1..Len(axes) : axes[i].kind = "base"}

\* strictly increasing sequences of two or three main axes
SpanGroups ==
    {s \in {<<a, b>> : a \in Mains, b \in Mains} : s[1] < s[2]}
    \cup {s \in {<<a, b, c>> : a \in Mains, b \in Mains, c \in Mains} :
              s[1] < s[2] /\ s[2] < s[3]}

layoutvars == <<fig, skw, gridspec, canvas, bbox, req, gspecs>>

ShareX(self, other) ==
    /\ nops < MaxOps
    /\ req.axis = "x"
    /\ LET w == sharex_setup(World(axes, sharedx, sharedy), self, other)
       IN /\ axes' = w.axes
          /\ sharedx' = w.sx
          /\ sharedy' = w.sy
          /\ last' = [op |-> "sharex", self |-> self, other |-> other,
                      joined_before |-> joined(sharedx, self, other),
                      raised |-> sharex_raises(World(axes, sharedx, sharedy), self, other)]
    /\ nops' = nops + 1
    /\ UNCHANGED layoutvars

ShareY(self, other) ==
    /\ nops < MaxOps
    /\ req.axis = "y"
    /\ LET w == sharey_setup(World(axes, sharedx, sharedy), self, other)
       IN /\ axes' = w.axes
          /\ sharedx' = w.sx
          /\ sharedy' = w.sy
          /\ last' = [op |-> "sharey", self |-> self, other |-> other,
                      joined_before |-> joined(sharedy, self, other),
                      raised |-> sharey_raises(World(axes, sharedx, sharedy), self, other)]
    /\ nops' = nops + 1
    /\ UNCHANGED layoutvars

SpanX(self, group) ==
    /\ nops < MaxOps
    /\ req.axis = "x"
    /\ LET r == spanx_setup(gridspec, axes, self, group)
       IN /\ axes' = r.axes
          /\ last' = [op |-> "spanx", self |-> self, group |-> group, raised |-> r.raised]
    /\ nops' = nops + 1
    /\ UNCHANGED <<layoutvars, sharedx, sharedy>>

SpanY(self, group) ==
    /\ nops < MaxOps
    /\ req.axis = "y"
    /\ LET r == spany_setup(gridspec, axes, self, group)
       IN /\ axes' = r.axes
          /\ last' = [op |-> "spany", self |-> self, group |-> group, raised |-> r.raised]
    /\ nops' = nops + 1
    /\ UNCHANGED <<layoutvars, sharedx, sharedy>>

NextLink ==
    \/ \E a \in Mains, b \in Mains \cup {NoneRef} : ShareX(a, b)
    \/ \E a \in Mains, b \in Mains \cup {NoneRef} : ShareY(a, b)
    \/ \E a \in Mains, grp \in SpanGroups : SpanX(a, grp)
    \/ \E a \in Mains, grp \in SpanGroups : SpanY(a, grp)

SpecLink == InitLink /\ [][NextLink]_vars

----------------------------------------------------------------------------
(* Properties of the share and span links (specification SpecLink) *)

Nodes == 1..Len(axes)

ShareStepX == nops' = nops + 1 /\ last'.op = "sharex"
ShareStepY == nops' = nops + 1 /\ last'.op = "sharey"
RealLink == last'.other # NoneRef /\ last'.self # last'.other

\* no group of g is split in h
Kept(g, h) == \A s \in g : \E t \in h : s \subseteq t

\* h is g with the groups of a and b merged into one
Merged(g, h, a, b) ==
    /\ Kept(g, h)
    /\ GroupOf(h, a) = GroupOf(g, a) \cup GroupOf(g, b)
    /\ \A s \in h : s = GroupOf(h, a) \/ s \in g

\* a linked to b and b linked to c puts a and c in one group
ChainX ==
    \A a \in Nodes :
        (axes[a].sharex # NoneRef /\ axes[axes[a].sharex].sharex # NoneRef)
            => joined(sharedx, a, axes[axes[a].sharex].sharex)
ChainY ==
    \A a \in Nodes :
        (axes[a].sharey # NoneRef /\ axes[axes[a].sharey].sharey # NoneRef)
            => joined(sharedy, a, axes[axes[a].sharey].sharey)

XLabelsOf(ax) == [i \in DOMAIN ax |-> <<ax[i].xlabel_visible, ax[i].xticklabels_visible>>]
YLabelsOf(ax) == [i \in DOMAIN ax |-> <<ax[i].ylabel_visible, ax[i].yticklabels_visible>>]

----------------------------------------------------------------------------
\* the members of the x span group of owner o that still belong to it
SpanXMembers(ax, o) ==
    {m \in Range(ax[o].spanx_group) : ax[m].spanx = o}

SpanStepX == nops' = nops + 1 /\ last'.op = "spanx" /\ last'.raised = ""

\* C5 as stated: once an x span group is set up with its owner, in every later
\* state the owner is the one member whose x-axis label is visible.
C5_OwnerAlwaysVisible ==
    \A o \in Nodes :
        (axes[o].spanx = o /\ o \in Range(axes[o].spanx_group)) =>
            {m \in SpanXMembers(axes, o) : axes[m].xlabel_visible} = {o}

\* C5, amended: right after an x span setup whose owner is in the group the
\* owner is the only member with a visible x-axis label; later every other
\* member still in the group keeps its label hidden, and the owner's label
\* stays visible until the owner is itself the caller of _sharex_setup, which
\* hides it: at most one member, the owner, ever shows its label.
C5_OwnerVisibleUntilShared ==
    [][ /\ (SpanStepX /\ last'.self \in Range(last'.group)) =>
              {m \in Range(last'.group) : axes'[m].xlabel_visible} = {last'.self}
        /\ \A o \in Nodes :
              axes'[o].spanx = o =>
                  {m \in SpanXMembers(axes', o) : axes'[m].xlabel_visible} \subseteq {o}
        /\ \A o \in Nodes :
              (/\ axes[o].spanx = o /\ axes'[o].spanx = o
               /\ axes[o].xlabel_visible /\ ~axes'[o].xlabel_visible)
                  => (last'.op = "sharex" /\ last'.self = o /\ RealLink)
      ]_vars

\* the owner of an x span group has been linked and shows no label any more
C5_Witness ==
    /\ last.op = "sharex"
    /\ axes[last.self].spanx = last.self
    /\ last.self \in Range(axes[last.self].spanx_group)
    /\ \E m \in SpanXMembers(axes, last.self) : m # last.self
    /\ \A m \in SpanXMembers(axes, last.self) : ~axes[m].xlabel_visible

\* C8 as stated: sharing an axes with itself raises an error.
C8_SelfLinkRaises ==
    (last.op \in {"sharex", "sharey"} /\ last.self = last.other) => last.raised # ""

\* C8, amended: sharing an axes with itself returns without an error and
\* changes nothing: no group, no label, no attribute of any axes.
C8_SelfLinkIsSilent ==
    [][ ((ShareStepX \/ ShareStepY) /\ last'.self = last'.other) =>
            /\ last'.raised = ""
            /\ axes' = axes /\ sharedx' = sharedx /\ sharedy' = sharedy
      ]_vars

\* an axes with visible labels has been shared with itself
C8_Witness ==
    /\ last.op \in {"sharex", "sharey"} /\ last.self = last.other
    /\ axes[last.self].xlabel_visible /\ axes[last.self].ylabel_visible

SpanStep == nops' = nops + 1 /\ last'.op \in {"spanx", "spany"}

\* a member of the group belongs to a different span group on that axis
InOtherSpanX(ax, self, group) ==
    \E m \in Range(group) :
        ax[m].spanx # NoneRef /\ (ax[m].spanx # self \/ ax[m].spanx_group # group)
InOtherSpanY(ax, self, group) ==
    \E m \in Range(group) :
        ax[m].spany # NoneRef /\ (ax[m].spany # self \/ ax[m].spany_group # group)

\* every list that names an axes is the group of that axes
OneSpanGroup(ax) ==
    \A a \in DOMAIN ax, b \in DOMAIN ax :
        /\ a \in Range(ax[b].spanx_group) => ax[a].spanx_group = ax[b].spanx_group
        /\ a \in Range(ax[b].spany_group) => ax[a].spany_group = ax[b].spany_group

\* C9 as stated: a span setup over an axes that is in another span group
\* raises and changes nothing, so no axes is named by two span groups.
C9_SecondGroupRaises ==
    [][ SpanStep =>
          /\ (last'.op = "spanx" /\ InOtherSpanX(axes, last'.self, last'.group))
                => (last'.raised # "" /\ axes' = axes)
          /\ (last'.op = "spany" /\ InOtherSpanY(axes, last'.self, last'.group))
                => (last'.raised # "" /\ axes' = axes)
          /\ OneSpanGroup(axes')
      ]_vars

\* C9, amended: a span setup over axes never fails because of a group they
\* are in: it returns without an error, makes every axes it lists a member of
\* the new group under the new owner, and leaves _spanx / _spanx_group
\* (_spany / _spany_group) of every other axes as they were, so an axes holds
\* one owner and one group per axis, the latest that listed it, while the list
\* kept by a former fellow member can still name it.
C9_SpanSetupReassigns ==
    [][ SpanStep =>
          /\ last'.raised = ""
          /\ last'.op = "spanx" =>
                \A m \in Nodes :
                    IF m \in Range(last'.group)
                    THEN axes'[m].spanx = last'.self /\ axes'[m].spanx_group = last'.group
                    ELSE axes'[m].spanx = axes[m].spanx
                           /\ axes'[m].spanx_group = axes[m].spanx_group
          /\ last'.op = "spany" =>
                \A m \in Nodes :
                    IF m \in Range(last'.group)
                    THEN axes'[m].spany = last'.self /\ axes'[m].spany_group = last'.group
                    ELSE axes'[m].spany = axes[m].spany
                           /\ axes'[m].spany_group = axes[m].spany_group
      ]_vars

\* a span setup has taken an axes out of a group whose list still names it
C9_Witness ==
    /\ last.op = "spanx" /\ last.raised = ""
    /\ \E a \in Nodes, m \in Range(last.group) :
          /\ a \notin Range(last.group)
          /\ m \in Range(axes[a].spanx_group)
          /\ axes[a].spanx_group # last.group

----------------------------------------------------------------------------
(* Specification SpecPanel: one call of Figure.panel_factory, with the     *)
(* arguments the initial state draws (req), on the cell <<0, 0>> of a      *)
(* 2 x 2 figure that holds one plain axes, in the cell below.              *)

PanelSettings == Settings(2, 2, FALSE, <<100, 100>>, 50, 20, {})

PanelChars == {"l", "r", "b", "t", "T", "x"}

WhichInputs ==
    {WhichNone, <<"left">>, <<"right">>, <<"bottom">>, <<"top">>}
      \cup UNION {[1..n -> PanelChars] : n \in 0..MaxWhich}

PanelWidths == {NoArg, 87, 150}     \* None (0.3 in), 0.87 in, 1.5 in

InitPanel ==
    LET r == gridspec_kwargs(PanelSettings)
    IN /\ fig = FigureInit(r.figsize, TRUE, 10, {})
       /\ skw = PanelSettings
       /\ gridspec = r.kw
       /\ canvas = r.figsize
       /\ axes = add_subplot(<<>>, 1, 0)
       /\ gspecs = <<>>
       /\ sharedx = {}
       /\ sharedy = {}
       /\ bbox = NoBbox
       /\ \E which \in WhichInputs, ww \in PanelWidths, hw \in {NoArg, 87},
             sh \in {NoneRef, 1} :
            req = [PanelArgs(<<0, 0>>, which, NoArg, NoArg, hw, ww)
                      EXCEPT !.sharex = sh, !.sharey = sh]
       /\ last = NoLast
       /\ nops = 0

PanelFactoryCall ==
    /\ nops = 0
    /\ LET r == panel_factory(fig, gridspec,
                    [axes |-> axes, sx |-> sharedx, sy |-> sharedy, gspecs |-> gspecs], req)
       IN /\ axes' = r.st.axes
          /\ sharedx' = r.st.sx
          /\ sharedy' = r.st.sy
          /\ gspecs' = r.st.gspecs
          /\ last' = [op |-> "panel_factory", raised |-> r.raised, axmain |-> r.axmain,
                      nbefore |-> Len(axes), gsbefore |-> Len(gspecs)]
    /\ nops' = nops + 1
    /\ UNCHANGED <<fig, skw, gridspec, canvas, bbox, req>>

NextPanel == PanelFactoryCall

SpecPanel == InitPanel /\ [][NextPanel]_vars

----------------------------------------------------------------------------
(* Properties of the panel factory (specification SpecPanel) *)

SideLetters == {"l", "r", "b", "t"}

\* the request names a set of sides: nothing, one full name, or distinct
\* letters of l, r, b, t
NamesSideSet(which) ==
    \/ which \in {WhichNone, <<"left">>, <<"right">>, <<"bottom">>, <<"top">>}
    \/ /\ Range(which) \subseteq SideLetters
       /\ Cardinality(Range(which)) = Len(which)

\* the set of sides a request names
SideSet(which) ==
    IF which = WhichNone THEN {}
    ELSE IF Len(which) = 1 /\ Len(which[1]) > 1 THEN {which[1]}
    ELSE {pf_side_name(ch) : ch \in Range(which)}

Created == (last.nbefore + 1)..Len(axes)
CreatedPanels == {i \in Created : axes[i].kind = "panel"}
CellOf(i) == <<axes[i].gs, axes[i].rows[1], axes[i].cols[1]>>

\* one main axes and one panel per side of S, each in a cell of its own of
\* the new nested grid, and no node where a top / bottom row meets a
\* left / right column
PanelsExactly(S) ==
    /\ Cardinality(Created) = 1 + Cardinality(S)
    /\ last.axmain \in Created /\ axes[last.axmain].kind = "base"
    /\ Created \ CreatedPanels = {last.axmain}
    /\ {axes[i].panelside : i \in CreatedPanels} = S
    /\ \A i \in Created : axes[i].gs = Len(gspecs) /\ Len(gspecs) = last.gsbefore + 1
    /\ \A i \in Created, j \in Created : CellOf(i) = CellOf(j) => i = j
    /\ \A p \in CreatedPanels, q \in CreatedPanels :
          (axes[p].panelside \in {"top", "bottom"} /\ axes[q].panelside \in {"left", "right"})
              => \A n \in Created : CellOf(n) # <<axes[p].gs, axes[p].rows[1], axes[q].cols[1]>>

\* C1 as stated: a call for the side set S, the empty set included, creates
\* 1 + |S| nodes, one panel per side, and binds no corner cell.
C1_EverySubset ==
    (last.op = "panel_factory" /\ last.raised = "" /\ NamesSideSet(req.whichpanels))
        => PanelsExactly(SideSet(req.whichpanels))

\* C1, amended: a call that returns, for a non-empty side set S, creates
\* 1 + |S| nodes, one main axes and one panel per side of S, each in its own
\* cell of the nested grid, and binds no corner cell; a call that names no
\* side (None or '') is served as 'r' and creates two nodes, the main axes
\* and a right panel.
C1_NonEmptySubset ==
    (last.op = "panel_factory" /\ last.raised = "" /\ NamesSideSet(req.whichpanels))
        => PanelsExactly(IF SideSet(req.whichpanels) = {} THEN {"right"}
                         ELSE SideSet(req.whichpanels))

\* all four sides have been requested and served
C1_Witness ==
    /\ last.op = "panel_factory" /\ last.raised = ""
    /\ SideSet(req.whichpanels) = {"left", "right", "bottom", "top"}
    /\ Cardinality(Created) = 5

\* what the request leaves to the main axes, along x and along y
ReqMainWidth ==
    LET wp == pf_translate(req.whichpanels)
        n == pf_ncols(wp)
    IN pf_main_size(n, SubspecWidth(fig, gridspec, req.subspec)
                          - fill(req.wspace, DefaultSpace) * (n - 1),
                    fill(req.wwidth, DefaultWidth))
ReqMainHeight ==
    LET wp == pf_translate(req.whichpanels)
        n == pf_nrows(wp)
    IN pf_main_size(n, SubspecHeight(fig, gridspec, req.subspec)
                          - fill(req.hspace, DefaultSpace) * (n - 1),
                    fill(req.hwidth, DefaultWidth))

\* C10: a request that leaves the main axes a size of zero or less, along x or
\* along y, raises an error and creates neither a nested gridspec nor an axes.
C10_NonPositiveMainRaises ==
    (last.op = "panel_factory" /\ (ReqMainWidth <= 0 \/ ReqMainHeight <= 0))
        => (last.raised # "" /\ Len(axes) = last.nbefore /\ Len(gspecs) = last.gsbefore)

----------------------------------------------------------------------------
(* Figure._suptitle_setup, Figure.smart_tight_layout and Figure.draw *)

TitlePad == 8       \* rc['axes.titlepad'] / 72, in hundredths of an inch
LineHeight == 17    \* line spacing times the height of a title line

\* lines 706-719: the title is centred between the margins that the layout
\* settings hold, on the width and height the figure was constructed with
suptitle_position(f, k, g, offset) ==
    LET left == k.left + (IF Truthy(f.leftpanel) THEN k.lwidth + k.lspace ELSE 0)
        right == k.right + (IF Truthy(f.rightpanel) THEN k.rwidth + k.rspace ELSE 0)
        off == IF offset THEN LineHeight ELSE 0
    IN [x |-> <<f.width + left - right, 2 * f.width>>,
        y |-> <<(TitlePad + off) * g.height + (g.height - g.top) * f.height,
                f.height * g.height>>]

\* lines 702-703: the title text is created on first use
suptitle_made(f) == [f EXCEPT !.has_suptitle = TRUE]

\* lines 706-707: a figure without gridspec or without settings has no
\* top and no left to read
suptitle_raises(k, g) == IF g.none \/ k.none THEN "AttributeError" ELSE ""

suptitle_setup(f, k, g, offset) ==
    [suptitle_made(f) EXCEPT !.suptitle = suptitle_position(f, k, g, offset)]

\* lines 724-730: is there a title or a column label above the top row?
draw_offset(ax) ==
    \E i \in DOMAIN ax :
        /\ ax[i].rows[1] = 0
        /\ \/ ax[i].title_text /\ ~ax[i].title_inside
           \/ ax[i].collabel_text # ""

\* mutant: every edge writes its outer margin
tight_names_outer(f) ==
    [l |-> "left", r |-> "right", b |-> "bottom", t |-> "top"]

\* lines 861-864: the entry of the settings that each edge writes
tight_names(f) ==
    [l |-> IF Truthy(f.leftpanel) THEN "lspace" ELSE "left",
     r |-> IF Truthy(f.rightpanel) THEN "rspace" ELSE "right",
     b |-> IF Truthy(f.bottompanel) THEN "bspace" ELSE "bottom",
     t |-> "top"]

\* lines 866-869
tight_margin(old, delta, pad) == old - delta + pad

\* Figure.smart_tight_layout(pad=padarg), given the measurement bb
smart_tight_layout(f, k, g, cv, bb, padarg) ==
    LET pad == IF padarg = NoArg THEN f.smart_pad ELSE padarg
        same == [fig |-> f, skw |-> k, gridspec |-> g, canvas |-> cv]
    IN IF k.none \/ g.none
       THEN [raised |-> "ValueError", moved |-> FALSE] @@ same
       ELSE LET n == tight_names(f)
                k1 == [k EXCEPT ![n.l] = tight_margin(@, bb.x1, pad),
                                ![n.r] = tight_margin(@, bb.x2, pad),
                                ![n.b] = tight_margin(@, bb.y1, pad),
                                ![n.t] = tight_margin(@, bb.y2, pad)]
                r == gridspec_kwargs(k1)
            IN IF r.raised # ""
               THEN [raised |-> r.raised, moved |-> FALSE,
                     fig |-> f, skw |-> k1, gridspec |-> g, canvas |-> cv]
               ELSE [raised |-> "", moved |-> TRUE,
                     fig |-> [f EXCEPT !.smart_tight_init = FALSE], skw |-> k1,
                     gridspec |-> gridspec_update(g, r.kw), canvas |-> r.figsize]

\* mutant: every draw of a figure with tight layout enabled tightens
draw_tightens_always(f) == f.smart_tight

\* line 742
draw_tightens(f) == f.smart_tight_init /\ f.smart_tight

----------------------------------------------------------------------------
(* Specification SpecDraw: drawing and tightening a figure of one row of   *)
(* two plain axes.  The initial state chooses whether the canvas size is   *)
(* fixed, which figure panels subplots() has assigned, whether tight       *)
(* layout is enabled, and what the backend measures.                       *)

DrawPanels == { {}, {"l"}, {"r", "b"} }

DrawSettings(fixed, panels) ==
    Settings(1, 2, fixed, IF fixed THEN <<300, 200>> ELSE <<100, 100>>, 50, 20, panels)

\* Figure.get_tightbbox against Figure.bbox_inches (lines 854-857): x1, y1
\* are where the content starts, from the left and the lower canvas edge
\* (negative when it overshoots the edge), x2, y2 how far short of the right
\* and the upper edge it ends.
Bboxes ==
    { [x1 |-> 10, y1 |-> 10, x2 |-> 10, y2 |-> 10],
      [x1 |-> 0 - 20, y1 |-> 5, x2 |-> 40, y2 |-> 10],
      [x1 |-> 0 - 80, y1 |-> 0 - 80, x2 |-> 0 - 80, y2 |-> 0 - 80] }

\* the frames of the outermost axes are content, so the content reaches at
\* least as far as the outer margins
Measurable(k) ==
    {b \in Bboxes : b.x1 <= k.left /\ b.x2 <= k.right /\ b.y1 <= k.bottom /\ b.y2 <= k.top}

InitDraw ==
    \E panels \in DrawPanels, fixed \in BOOLEAN, tight \in BOOLEAN :
      LET k == DrawSettings(fixed, panels)
          r == gridspec_kwargs(k)
      IN /\ fig = FigureInit(r.figsize, tight, 10, panels)
         /\ skw = k
         /\ gridspec = r.kw
         /\ canvas = r.figsize
         /\ axes = add_subplot(add_subplot(<<>>, 0, 0), 0, 1)
         /\ gspecs = <<>>
         /\ sharedx = {}
         /\ sharedy = {}
         /\ bbox \in Measurable(k)
         /\ req = [op |-> "draw", axis |-> "x"]
         /\ last = NoLast
         /\ nops = 0

\* what a layout pass leaves behind; after the grid has moved the backend
\* measures anew
Relayout(r) ==
    /\ skw' = r.skw
    /\ gridspec' = r.gridspec
    /\ canvas' = r.canvas
    /\ IF r.moved THEN bbox' \in Measurable(r.skw) ELSE bbox' = bbox

\* a direct call of Figure.smart_tight_layout(pad=padarg)
SmartTightLayout(padarg) ==
    /\ nops < MaxOps
    /\ LET r == smart_tight_layout(fig, skw, gridspec, canvas, bbox, padarg)
       IN /\ fig' = r.fig
          /\ Relayout(r)
          /\ last' = [op |-> "tight", passes |-> 1, raised |-> r.raised,
                      painted |-> FALSE, measured |-> bbox,
                      pad |-> IF padarg = NoArg THEN fig.smart_pad ELSE padarg]
    /\ nops' = nops + 1
    /\ UNCHANGED <<axes, gspecs, sharedx, sharedy, req>>

\* Figure.draw
Draw ==
    /\ nops < MaxOps
    /\ IF suptitle_raises(skw, gridspec) # ""
       THEN /\ fig' = suptitle_made(fig)
            /\ UNCHANGED <<skw, gridspec, canvas, bbox>>
            /\ last' = [op |-> "draw", passes |-> 0,
                        raised |-> suptitle_raises(skw, gridspec),
                        painted |-> FALSE, measured |-> bbox, pad |-> fig.smart_pad]
       ELSE
       LET f1 == suptitle_setup(fig, skw, gridspec, draw_offset(axes))
       IN IF draw_tightens(f1)
          THEN LET r == smart_tight_layout(f1, skw, gridspec, canvas, bbox, NoArg)
               IN /\ fig' = r.fig
                  /\ Relayout(r)
                  /\ last' = [op |-> "draw", passes |-> 1, raised |-> r.raised,
                              painted |-> (r.raised = ""), measured |-> bbox,
                              pad |-> fig.smart_pad]
          ELSE /\ fig' = f1
               /\ UNCHANGED <<skw, gridspec, canvas, bbox>>
               /\ last' = [op |-> "draw", passes |-> 0, raised |-> "",
                           painted |-> TRUE, measured |-> bbox,
                           pad |-> fig.smart_pad]
    /\ nops' = nops + 1
    /\ UNCHANGED <<axes, gspecs, sharedx, sharedy, req>>

NextDraw ==
    \/ \E padarg \in {NoArg, 25} : SmartTightLayout(padarg)
    \/ Draw
    \/ SpanX(1, <<1, 2>>)

SpecDraw == InitDraw /\ [][NextDraw]_vars

----------------------------------------------------------------------------
(* Properties of drawing and tightening (specification SpecDraw) *)

\* a step in which one pass of smart_tight_layout ran, called directly or by
\* draw, on a figure that has its layout settings and its gridspec
TightStep ==
    /\ nops' = nops + 1
    /\ last'.op \in {"tight", "draw"}
    /\ last'.passes = 1
    /\ ~skw.none /\ ~gridspec.none

DrawStep == nops' = nops + 1 /\ last'.op = "draw"

\* C2: one pass of smart_tight_layout(pad) that measures content overshooting
\* the left canvas edge by X and ending Y short of the right edge sets the
\* left margin to old + X + pad and the right margin to old - (Y - pad), and
\* treats bottom and top the same way; on an edge that a figure panel
\* occupies the entry written is lspace / rspace / bspace, not left / right /
\* bottom; every other entry of the layout settings is unchanged.
C2_TightLayoutMargins ==
    [][TightStep =>
        LET X == 0 - bbox.x1
            Y == bbox.x2
            pad == last'.pad
            L == IF fig.leftpanel = PanelObj THEN "lspace" ELSE "left"
            R == IF fig.rightpanel = PanelObj THEN "rspace" ELSE "right"
            B == IF fig.bottompanel = PanelObj THEN "bspace" ELSE "bottom"
        IN /\ skw'[L] = skw[L] + X + pad
           /\ skw'[R] = skw[R] - (Y - pad)
           /\ skw'[B] = skw[B] + (0 - bbox.y1) + pad
           /\ skw'.top = skw.top - (bbox.y2 - pad)
           /\ DOMAIN skw' = DOMAIN skw
           /\ \A key \in DOMAIN skw \ {L, R, B, "top"} : skw'[key] = skw[key]
    ]_vars

\* a first pass on a figure with a left figure panel has measured an
\* overshoot on the left and a gap wider than pad on the right
C2_Witness ==
    /\ nops = 1
    /\ last.op = "tight"
    /\ last.raised = ""
    /\ fig.leftpanel = PanelObj
    /\ last.measured.x1 < 0
    /\ last.measured.x2 > last.pad
    /\ skw.lspace = DrawSettings(FALSE, {"l"}).lspace - last.measured.x1 + last.pad
    /\ skw.left = DrawSettings(FALSE, {"l"}).left

\* C4: in every state after a span group has been set up, and in particular
\* after smart_tight_layout has moved the members, the owner's spanning axis
\* label is at the midpoint of the members' current combined extent, without
\* the group being registered again.
C4_SpanLabelAtMidpoint ==
    \A i \in DOMAIN axes :
        /\ axes[i].spanx = i /\ axes[i].xlabel_fig =>
               FracEq(axes[i].xlabel_pos,
                      spanx_midpoint(gridspec, axes, axes[i].spanx_group))
        /\ axes[i].spany = i /\ axes[i].ylabel_fig =>
               FracEq(axes[i].ylabel_pos,
                      spany_midpoint(gridspec, axes, axes[i].spany_group))

C7_FailedPassChangesNothing ==
    [][TightStep /\ last'.raised # "" =>
        /\ skw' = skw
        /\ gridspec' = gridspec
        /\ canvas' = canvas
        /\ fig'.smart_tight_init = fig.smart_tight_init
    ]_vars

----------------------------------------------------------------------------
(* Further properties of the panel factory (specification SpecPanel) *)

FullNames == {<<"left">>, <<"right">>, <<"bottom">>, <<"top">>}
UpperLetters == {"L", "R", "B", "T"}

\* the request is a string of characters, not None and not a full side name
IsLetters(which) == which \notin FullNames \cup {WhichNone}

NothingCreated == Len(axes) = last.nbefore /\ Len(gspecs) = last.gsbefore

\* C11 as stated: a whichpanels value holding a token other than l, r, b, t
\* (and not a full side name) raises an error before a gridspec or an axes is
\* created.
C11_OtherTokenRaises ==
    (/\ last.op = "panel_factory"
     /\ IsLetters(req.whichpanels)
     /\ \E i \in 1..Len(req.whichpanels) : req.whichpanels[i] \notin SideLetters)
        => (last.raised # "" /\ NothingCreated)

\* C11, amended: the validation compares the lower-cased characters, so a
\* value holding a character that is none of l, r, b, t, L, R, B, T raises
\* before a gridspec or an axes is created, while a value made of those
\* eight letters passes the validation: it raises only if the panels do not
\* fit.
C11_UnrecognizedTokenRaises ==
    (last.op = "panel_factory" /\ IsLetters(req.whichpanels)) =>
        /\ (\E i \in 1..Len(req.whichpanels) :
                req.whichpanels[i] \notin SideLetters \cup UpperLetters)
              => (last.raised = "ValueError" /\ NothingCreated)
        /\ (/\ Range(req.whichpanels) \subseteq SideLetters \cup UpperLetters
            /\ ReqMainWidth >= 0 /\ ReqMainHeight >= 0)
              => (last.raised = "" /\ ~NothingCreated)

\* a request with a valid letter followed by an unknown one has been refused
C11_Witness ==
    /\ last.op = "panel_factory"
    /\ Len(req.whichpanels) = 2
    /\ req.whichpanels[1] = "l" /\ req.whichpanels[2] = "x"
    /\ last.raised = "ValueError"
    /\ NothingCreated

----------------------------------------------------------------------------
(* Figure._rowlabels and Figure._collabels.  The labels argument is a      *)
(* record: str tells whether it is one string, seq holds the string or the *)
(* items of the sequence.                                                  *)

LabelStr(text) == [str |-> TRUE, seq |-> <<text>>]
LabelSeq(seq) == [str |-> FALSE, seq |-> seq]

\* lines 662-664 and 684-686: the axes that take a row / a column label
rowlabel_axes(ax) == {i \in DOMAIN ax : ax[i].kind # "panel" /\ ax[i].cols[1] = 0}
collabel_axes(ax) == {i \in DOMAIN ax : ax[i].kind # "panel" /\ ax[i].rows[1] = 0}

\* lines 665-666: one string stands for a list of as many copies
label_list(labels, n) ==
    IF labels.str THEN [i \in 1..n |-> labels.seq[1]] ELSE labels.seq

\* lines 669, 691: sorted(zip(keys, axs)) compares the axes themselves when
\* two keys are equal, and axes have no order
sorted_raises(keys) ==
    \E i \in DOMAIN keys, j \in DOMAIN keys : i # j /\ keys[i] = keys[j]

\* the place of axes i in the sorted list
sorted_index(keys, i) == 1 + Cardinality({j \in DOMAIN keys : keys[j] < keys[i]})

\* lines 674-675: x of a row label, taken from the y axis label
rowlabel_x(a) == [set |-> TRUE, fig |-> a.ylabel_fig, pos |-> a.ylabel_pos]

\* mutant: a row label that has a text is written again
rowlabel_apply_again(a, label) ==
    IF label # ""
    THEN [a EXCEPT !.rowlabel_visible = TRUE, !.rowlabel_text = label,
                   !.rowlabel_pos = rowlabel_x(a)]
    ELSE a

\* lines 671-679
rowlabel_apply(a, label) ==
    IF label # "" /\ a.rowlabel_text = ""
    THEN [a EXCEPT !.rowlabel_visible = TRUE, !.rowlabel_text = label,
                   !.rowlabel_pos = rowlabel_x(a)]
    ELSE a

\* lines 693-694
collabel_apply(a, label) ==
    IF label # "" /\ a.collabel_text = ""
    THEN [a EXCEPT !.collabel_text = label]
    ELSE a

\* Figure._rowlabels(labels)
rowlabels(ax, labels) ==
    LET axs == rowlabel_axes(ax)
        list == label_list(labels, Cardinality(axs))
        keys == [i \in axs |-> ax[i].rows[1]]
    IN IF Len(list) # Cardinality(axs) THEN [raised |-> "ValueError", axes |-> ax]
       ELSE IF sorted_raises(keys) THEN [raised |-> "TypeError", axes |-> ax]
       ELSE [raised |-> "",
             axes |-> [i \in DOMAIN ax |->
                         IF i \in axs
                         THEN rowlabel_apply(ax[i], list[sorted_index(keys, i)])
                         ELSE ax[i]]]

\* Figure._collabels(labels)
collabels(ax, labels) ==
    LET axs == collabel_axes(ax)
        list == label_list(labels, Cardinality(axs))
        keys == [i \in axs |-> ax[i].cols[1]]
    IN IF Len(list) # Cardinality(axs) THEN [raised |-> "ValueError", axes |-> ax]
       ELSE IF sorted_raises(keys) THEN [raised |-> "TypeError", axes |-> ax]
       ELSE [raised |-> "",
             axes |-> [i \in DOMAIN ax |->
                         IF i \in axs
                         THEN collabel_apply(ax[i], list[sorted_index(keys, i)])
                         ELSE ax[i]]]

----------------------------------------------------------------------------
(* Specification SpecLabel: row and column labels on a 2 x 2 figure.  The  *)
(* figure holds four plain axes, or two axes built by panel_factory in the *)
(* top row and a plain axes below the first.                               *)

LabelTexts == {"", "A", "B"}

LabelInputs ==
    {LabelStr("A"), LabelStr("B"), LabelSeq(<<>>), LabelSeq(<<"A">>),
     LabelSeq(<<"A", "B", "A">>)}
      \cup {LabelSeq(<<x, y>>) : x \in LabelTexts, y \in LabelTexts}

LabelPanels == { <<"l">>, <<"r">> }

InitLabel ==
    LET r == gridspec_kwargs(LinkSettings)
        f == FigureInit(r.figsize, TRUE, 10, {})
        both(wb) ==
            panel_factory(f, r.kw,
                panel_factory(f, r.kw, EmptyState,
                    PanelArgs(<<0, 0>>, <<"l">>, NoArg, NoArg, NoArg, NoArg)).st,
                PanelArgs(<<0, 1>>, wb, NoArg, NoArg, NoArg, NoArg)).st
        plain == add_subplot(add_subplot(add_subplot(add_subplot(<<>>,
                    1, 1), 1, 0), 0, 1), 0, 0)
    IN /\ fig = f
       /\ skw = LinkSettings
       /\ gridspec = r.kw
       /\ canvas = r.figsize
       /\ \/ /\ axes = plain
             /\ gspecs = <<>>
             /\ sharedx = {}
             /\ sharedy = {}
          \/ \E wb \in LabelPanels :
                /\ axes = add_subplot(both(wb).axes, 1, 0)
                /\ gspecs = both(wb).gspecs
                /\ sharedx = both(wb).sx
                /\ sharedy = both(wb).sy
       /\ bbox = NoBbox
       /\ req = NoReq
       /\ last = NoLast
       /\ nops = 0

RowLabels(labels) ==
    /\ nops < MaxOps
    /\ LET r == rowlabels(axes, labels)
       IN /\ axes' = r.axes
          /\ last' = [op |-> "rowlabels", labels |-> labels, raised |-> r.raised]
    /\ nops' = nops + 1
    /\ UNCHANGED <<layoutvars, sharedx, sharedy>>

ColLabels(labels) ==
    /\ nops < MaxOps
    /\ LET r == collabels(axes, labels)
       IN /\ axes' = r.axes
          /\ last' = [op |-> "collabels", labels |-> labels, raised |-> r.raised]
    /\ nops' = nops + 1
    /\ UNCHANGED <<layoutvars, sharedx, sharedy>>

NextLabel ==
    \/ \E labels \in LabelInputs : RowLabels(labels)
    \/ \E labels \in LabelInputs : ColLabels(labels)

SpecLabel == InitLabel /\ [][NextLabel]_vars

----------------------------------------------------------------------------
(* Properties of row and column labels (specification SpecLabel) *)

RowStep == nops' = nops + 1 /\ last'.op = "rowlabels"
ColStep == nops' = nops + 1 /\ last'.op = "collabels"

NonPanel == {i \in DOMAIN axes : axes[i].kind # "panel"}

\* what an accepted list of labels does to the texts: the axes of S, taken
\* in the order of key, get the labels one by one
LabelsGiven(S, key, list, old, new) ==
    /\ \A i \in S : \A j \in S : i # j => key[i] # key[j]
    /\ \A i \in S :
          LET label == list[1 + Cardinality({j \in S : key[j] < key[i]})]
          IN new[i] = IF label # "" /\ old[i] = "" THEN label ELSE old[i]
    /\ \A i \in DOMAIN axes \ S : new[i] = old[i]

\* C12: _rowlabels (_collabels) takes the non-panel axes of column (row) 0 in
\* the order of their rows (columns); one string, or a sequence with one
\* item per selected axes, is accepted and labels them in that order; a
\* sequence of any other length raises the count-mismatch error and no label
\* text is set.
C12_LabelSelection ==
    [][/\ RowStep =>
            LET S == {i \in NonPanel : axes[i].cols[1] = 0}
                l == last'.labels
            IN IF l.str \/ Len(l.seq) = Cardinality(S)
               THEN /\ last'.raised = ""
                    /\ LabelsGiven(S, [i \in S |-> axes[i].rows[1]],
                                   IF l.str THEN [k \in 1..Cardinality(S) |-> l.seq[1]]
                                   ELSE l.seq,
                                   [i \in DOMAIN axes |-> axes[i].rowlabel_text],
                                   [i \in DOMAIN axes |-> axes'[i].rowlabel_text])
               ELSE last'.raised = "ValueError" /\ axes' = axes
       /\ ColStep =>
            LET S == {i \in NonPanel : axes[i].rows[1] = 0}
                l == last'.labels
            IN IF l.str \/ Len(l.seq) = Cardinality(S)
               THEN /\ last'.raised = ""
                    /\ LabelsGiven(S, [i \in S |-> axes[i].cols[1]],
                                   IF l.str THEN [k \in 1..Cardinality(S) |-> l.seq[1]]
                                   ELSE l.seq,
                                   [i \in DOMAIN axes |-> axes[i].collabel_text],
                                   [i \in DOMAIN axes |-> axes'[i].collabel_text])
               ELSE last'.raised = "ValueError" /\ axes' = axes
    ]_vars

\* C13: an axes whose row (column) label has a text is skipped, so a further
\* call of _rowlabels (_collabels), with the same or with other texts, leaves
\* the text, the position and the visibility of that label as they are, and
\* a call repeated with the same labels changes nothing.
C13_LabelsIdempotent ==
    [][/\ RowStep =>
            /\ \A i \in DOMAIN axes : axes[i].rowlabel_text # "" =>
                  /\ axes'[i].rowlabel_text = axes[i].rowlabel_text
                  /\ axes'[i].rowlabel_pos = axes[i].rowlabel_pos
                  /\ axes'[i].rowlabel_visible = axes[i].rowlabel_visible
            /\ rowlabels(axes', last'.labels).axes = axes'
       /\ ColStep =>
            /\ \A i \in DOMAIN axes : axes[i].collabel_text # "" =>
                  axes'[i].collabel_text = axes[i].collabel_text
            /\ collabels(axes', last'.labels).axes = axes'
    ]_vars

\* row labels "A" have been set and a second call has offered "B" to the same
\* axes
C13_Witness ==
    /\ nops = 2
    /\ last.op = "rowlabels" /\ last.raised = "" /\ last.labels = LabelStr("B")
    /\ rowlabel_axes(axes) # {}
    /\ \A i \in rowlabel_axes(axes) : axes[i].rowlabel_text = "A"

----------------------------------------------------------------------------
(* Axes titles: BaseAxes._title_pos and the title part of BaseAxes.format. *)
(* A position is a sequence of the characters l, c, r, o, i; None is       *)
(* NoTitlePos.  title_out tells whether the title text sits above the      *)
(* axes, title_inside is the attribute _title_inside.                      *)

NoTitlePos == <<"None">>

\* lines 1119-1127: the default and the completed position string
title_pos_string(pos) ==
    LET p0 == IF pos = NoTitlePos \/ pos = <<>> THEN <<"o", "c">> ELSE pos
        p1 == IF Range(p0) \cap {"l", "c", "r"} = {} THEN Append(p0, "c") ELSE p0
    IN IF Range(p1) \cap {"o", "i"} = {} THEN Append(p1, "o") ELSE p1

\* lines 1137-1144: where the text goes, and the attribute; the assignment
\* of line 1144 follows the if / elif and so is what remains
title_pos(a, pos) ==
    [a EXCEPT !.title_out = "o" \in Range(title_pos_string(pos)),
              !.title_inside = TRUE]

\* lines 1196-1205: format(title=text, titlepos=pos)
format_title(a, text, pos) ==
    title_pos([a EXCEPT !.title_text = (text # "")], pos)

\* Axes.set_title(text) of matplotlib: the text of the title above the axes
set_title(a, text) == [a EXCEPT !.title_text = (text # "")]

----------------------------------------------------------------------------
(* Specification SpecTitle: titles, column labels and draw on a figure of  *)
(* one row of two plain axes.                                              *)

TitlePositions == {NoTitlePos, <<"o", "c">>, <<"i", "c">>, <<"l">>}

InitTitle ==
    LET k == DrawSettings(FALSE, {})
        r == gridspec_kwargs(k)
    IN /\ fig \in {FigureInit(r.figsize, tight, 10, {}) : tight \in BOOLEAN}
       /\ skw = k
       /\ gridspec = r.kw
       /\ canvas = r.figsize
       /\ axes = add_subplot(add_subplot(<<>>, 0, 0), 0, 1)
       /\ gspecs = <<>>
       /\ sharedx = {}
       /\ sharedy = {}
       /\ bbox \in Measurable(k)
       /\ req = NoReq
       /\ last = NoLast
       /\ nops = 0

FormatTitle(i, text, pos) ==
    /\ nops < MaxOps
    /\ axes' = [axes EXCEPT ![i] = format_title(@, text, pos)]
    /\ last' = [op |-> "format", self |-> i, title |-> text, titlepos |-> pos,
                raised |-> ""]
    /\ nops' = nops + 1
    /\ UNCHANGED <<layoutvars, sharedx, sharedy>>

SetTitle(i, text) ==
    /\ nops < MaxOps
    /\ axes' = [axes EXCEPT ![i] = set_title(@, text)]
    /\ last' = [op |-> "set_title", self |-> i, title |-> text, raised |-> ""]
    /\ nops' = nops + 1
    /\ UNCHANGED <<layoutvars, sharedx, sharedy>>

NextTitle ==
    \/ \E i \in DOMAIN axes, text \in {"", "T"}, pos \in TitlePositions :
          FormatTitle(i, text, pos)
    \/ \E i \in DOMAIN axes, text \in {"", "T"} : SetTitle(i, text)
    \/ \E labels \in {LabelStr("A"), LabelSeq(<<"", "B">>)} : ColLabels(labels)
    \/ Draw

SpecTitle == InitTitle /\ [][NextTitle]_vars

----------------------------------------------------------------------------
(* Properties of the figure title (specification SpecTitle) *)

\* some axes of the top row has a title with a text above the axes, or a
\* column label with a text
TitleAbove ==
    \E i \in DOMAIN axes :
        /\ axes[i].rows[1] = 0
        /\ \/ axes[i].title_text /\ axes[i].title_out
           \/ axes[i].collabel_text # ""

\* the height of the figure title: the top of the grid plus the title pad
\* plus off
SuptitleAt(off) ==
    <<(TitlePad + off) * gridspec.height + (gridspec.height - gridspec.top) * fig.height,
      fig.height * gridspec.height>>

\* C14: at draw the figure title is raised by one line height if and only if
\* some top-row axes has a title with a text placed outside the axes or a
\* column label with a text; otherwise it sits at the top of the grid plus
\* the title pad.  A title set through format() at an outside position
\* raises it.
C14_TitleOffset ==
    [][DrawStep =>
          fig'.suptitle.y = SuptitleAt(IF TitleAbove THEN LineHeight ELSE 0)]_vars

----------------------------------------------------------------------------
(* Specification SpecBare: drawing and tightening a figure that was        *)
(* constructed without a gridspec (gridspec=None).                         *)

InitBare ==
    \E panels \in DrawPanels, fixed \in BOOLEAN, tight \in BOOLEAN :
      LET k == DrawSettings(fixed, panels)
      IN /\ fig = FigureInit(gridspec_kwargs(k).figsize, tight, 10, panels)
         /\ skw = k
         /\ gridspec = NoGridSpec
         /\ canvas = gridspec_kwargs(k).figsize
         /\ axes = add_subplot(add_subplot(<<>>, 0, 0), 0, 1)
         /\ gspecs = <<>>
         /\ sharedx = {}
         /\ sharedy = {}
         /\ bbox \in Measurable(k)
         /\ req = NoReq
         /\ last = NoLast
         /\ nops = 0

NextBare ==
    \/ \E padarg \in {NoArg, 25} : SmartTightLayout(padarg)
    \/ Draw

SpecBare == InitBare /\ [][NextBare]_vars

\* C15: tight layout on a figure without gridspec or without layout
\* settings, called directly or reached through the first draw, fails with
\* the layout error (the ValueError of smart_tight_layout) and modifies no
\* margin, no gridspec, no title and no canvas size.
C15_NoGeometryFailsClean ==
    [][(/\ nops' = nops + 1
        /\ last'.op \in {"tight", "draw"}
        /\ gridspec.none \/ skw.none
        /\ last'.op = "draw" => (fig.smart_tight /\ fig.smart_tight_init))
          => /\ last'.raised = "ValueError"
             /\ UNCHANGED <<fig, skw, gridspec, canvas>>
    ]_vars

----------------------------------------------------------------------------
(* Order of creation in Figure.panel_factory (specification SpecPanel) *)

\* the panels of the call come in the order given by rank
CreatedInOrder(rank) ==
    /\ last.axmain = last.nbefore + 1
    /\ axes[last.axmain].kind = "base"
    /\ \A p \in CreatedPanels : p > last.axmain
    /\ \A p \in CreatedPanels : axes[p].panelside \in DOMAIN rank
    /\ \A p \in CreatedPanels, q \in CreatedPanels :
          p < q => rank[axes[p].panelside] < rank[axes[q].panelside]

\* C16 as stated: the main axes is created first, then the panels in the
\* order left, right, top, bottom.
C16_LeftRightTopBottom ==
    (last.op = "panel_factory" /\ last.raised = "")
        => CreatedInOrder([left |-> 1, right |-> 2, top |-> 3, bottom |-> 4])

\* C16, amended: the main axes is created first, then the panels row by row
\* from the top and from left to right in a row: top, left, right, bottom.
C16_TopLeftRightBottom ==
    (last.op = "panel_factory" /\ last.raised = "")
        => CreatedInOrder([top |-> 1, left |-> 2, right |-> 3, bottom |-> 4])

\* the four panels have been created, top first and bottom last
C16_Witness ==
    /\ last.op = "panel_factory" /\ last.raised = ""
    /\ Len(axes) = last.nbefore + 5
    /\ axes[last.nbefore + 2].panelside = "top"
    /\ axes[last.nbefore + 3].panelside = "left"
    /\ axes[last.nbefore + 4].panelside = "right"
    /\ axes[last.nbefore + 5].panelside = "bottom"

----------------------------------------------------------------------------
(* PanelAxes.legend and PanelAxes.colorbar, and the specification          *)
(* SpecContent: one call of panel_factory for a set of sides, with the     *)
(* default widths, followed by requests for content on the panels.         *)

\* lines 1731-1740
panel_legend(ax, i) ==
    [ax EXCEPT ![i] = [panel_invisible(@) EXCEPT !.content = "legend"]]

\* lines 1742-1751, 1775: colorbar(n=n, length=1); the colorbar is drawn in
\* a new plain axes on the cell of the panel
panel_colorbar(ax, i, n) ==
    LET hidden == [ax EXCEPT ![i] = panel_invisible(@)]
    IN IF n > 2 THEN [raised |-> "ValueError", axes |-> hidden]
       ELSE [raised |-> "",
             axes |-> Append([hidden EXCEPT ![i].content = "colorbar"],
                             [ax[i] EXCEPT !.kind = "colorbar", !.panelparent = i])]

InitContent ==
    /\ InitPanel
    /\ NamesSideSet(req.whichpanels)
    /\ req.hwidth = NoArg /\ req.wwidth = NoArg /\ req.sharex = NoneRef

Legend(i) ==
    /\ nops > 0 /\ nops < MaxOps
    /\ axes[i].kind = "panel"
    /\ axes' = panel_legend(axes, i)
    /\ last' = [op |-> "legend", self |-> i, raised |-> ""]
    /\ nops' = nops + 1
    /\ UNCHANGED <<layoutvars, sharedx, sharedy>>

Colorbar(i, n) ==
    /\ nops > 0 /\ nops < MaxOps
    /\ axes[i].kind = "panel"
    /\ LET r == panel_colorbar(axes, i, n)
       IN /\ axes' = r.axes
          /\ last' = [op |-> "colorbar", self |-> i, raised |-> r.raised]
    /\ nops' = nops + 1
    /\ UNCHANGED <<layoutvars, sharedx, sharedy>>

NextContent ==
    \/ PanelFactoryCall
    \/ \E i \in DOMAIN axes : Legend(i)
    \/ \E i \in DOMAIN axes, n \in {1, 3} : Colorbar(i, n)

SpecContent == InitContent /\ [][NextContent]_vars

Panels == {i \in DOMAIN axes : axes[i].kind = "panel"}

\* C17 as stated: a panel is invisible from its creation until a legend or
\* a colorbar is requested on it.
C17_PanelsStartInvisible ==
    \A i \in Panels : axes[i].content = "" => axes[i].invisible

\* C17, amended: a panel created by panel_factory is visible when it is
\* created, and stays visible until a legend or a colorbar is requested on
\* it; the request hides it (spines, axes and patch), and it stays hidden.
C17_PanelsVisibleUntilContent ==
    [][/\ \A i \in DOMAIN axes' \ DOMAIN axes :
              axes'[i].kind = "panel" => ~axes'[i].invisible
       /\ \A i \in Panels :
              axes'[i].invisible =
                  \/ axes[i].invisible
                  \/ last'.op \in {"legend", "colorbar"} /\ last'.self = i
    ]_vars

\* a legend has hidden one panel of a call while another is still visible
C17_Witness ==
    /\ last.op = "legend"
    /\ axes[last.self].invisible
    /\ \E j \in Panels : ~axes[j].invisible /\ axes[j].panelparent = axes[last.self].panelparent

----------------------------------------------------------------------------
(* Propagation of a share link to the panels (specification SpecLink) *)

\* the panels of axes i of ax on the sides that lie along the x (y) axis
XPanelsOf(ax, i) == {p \in {ax[i].bottompanel, ax[i].toppanel} : Truthy(p)}
YPanelsOf(ax, i) == {p \in {ax[i].leftpanel, ax[i].rightpanel} : Truthy(p)}

\* C18: linking a and b on x puts the bottom and top panels of both a and b
\* into the x group of a and b, and linking on y puts the left and right
\* panels of both into their y group.
C18_PanelsOfBothJoin ==
    [][/\ (ShareStepX /\ RealLink) =>
              \A p \in {last'.self, last'.other}
                         \cup XPanelsOf(axes', last'.self)
                         \cup XPanelsOf(axes', last'.other) :
                  joined(sharedx', last'.self, p)
       /\ (ShareStepY /\ RealLink) =>
              \A p \in {last'.self, last'.other}
                         \cup YPanelsOf(axes', last'.self)
                         \cup YPanelsOf(axes', last'.other) :
                  joined(sharedy', last'.self, p)
    ]_vars

\* what the link does reach: the panels of the caller only
PanelsOfCallerJoin ==
    [][/\ (ShareStepX /\ RealLink) =>
              \A p \in {last'.self, last'.other} \cup XPanelsOf(axes', last'.self) :
                  joined(sharedx', last'.self, p)
       /\ (ShareStepY /\ RealLink) =>
              \A p \in {last'.self, last'.other} \cup YPanelsOf(axes', last'.self) :
                  joined(sharedy', last'.self, p)
    ]_vars

----------------------------------------------------------------------------
(* Visible labels of a share group (specification SpecLink) *)

\* no span group has been set up: the labels are as the share links left them
NoSpans == \A i \in Nodes : axes[i].spanx = NoneRef /\ axes[i].spany = NoneRef

XShown(i) == axes[i].xticklabels_visible /\ axes[i].xlabel_visible
YShown(i) == axes[i].yticklabels_visible /\ axes[i].ylabel_visible
XHidden(i) == ~axes[i].xticklabels_visible /\ ~axes[i].xlabel_visible
YHidden(i) == ~axes[i].yticklabels_visible /\ ~axes[i].ylabel_visible

\* C19: after any sequence of share links, every x (y) share group has
\* exactly one member whose tick labels and axis label are visible, and every
\* other member of the group has them hidden.
C19_OneVisiblePerGroup ==
    NoSpans =>
        /\ \A s \in sharedx : \E m \in s : XShown(m) /\ \A o \in s \ {m} : XHidden(o)
        /\ \A s \in sharedy : \E m \in s : YShown(m) /\ \A o \in s \ {m} : YHidden(o)

\* what the links do keep: the labels of an axes are hidden exactly when it
\* was the caller of a link
HiddenIffCaller ==
    NoSpans =>
        \A i \in Nodes : /\ XShown(i) = (axes[i].sharex = NoneRef)
                         /\ XHidden(i) = (axes[i].sharex # NoneRef)
                         /\ YShown(i) = (axes[i].sharey = NoneRef)
                         /\ YHidden(i) = (axes[i].sharey # NoneRef)

----------------------------------------------------------------------------
(* Labels of a y span group (specification SpecLink) *)

SpanStepY == nops' = nops + 1 /\ last'.op = "spany" /\ last'.raised = ""

\* C20: after a y span group is set up with its owner, every member of the
\* group other than the owner has its y-axis label hidden, and the owner is
\* the only member whose y-axis label is visible.
C20_OnlyOwnerShowsYLabel ==
    [][(SpanStepY /\ last'.self \in Range(last'.group)) =>
           {m \in Range(last'.group) : axes'[m].ylabel_visible} = {last'.self}
    ]_vars

----------------------------------------------------------------------------
(* The ratios of the nested grid.  Specification SpecRatio: one call of    *)
(* panel_factory on a cell 3 in wide and 2 in high, for a set of sides,    *)
(* with the spaces and the panel widths given or left at their defaults.   *)

RatioSides ==
    { WhichNone, <<"r">>, <<"l">>, <<"b">>, <<"l", "r">>, <<"t", "b">>,
      <<"r", "b">>, <<"l", "r", "b", "t">> }

InitRatio ==
    LET r == gridspec_kwargs(LinkSettings)
    IN /\ fig = FigureInit(r.figsize, TRUE, 10, {})
       /\ skw = LinkSettings
       /\ gridspec = r.kw
       /\ canvas = r.figsize
       /\ axes = <<>>
       /\ gspecs = <<>>
       /\ sharedx = {}
       /\ sharedy = {}
       /\ bbox = NoBbox
       /\ \E cell \in {<<0, 0>>, <<1, 1>>}, which \in RatioSides,
             hs \in {NoArg, 0}, ws \in {NoArg, 0}, hw \in {NoArg, 50}, ww \in {NoArg, 87} :
            req = PanelArgs(cell, which, hs, ws, hw, ww)
       /\ last = NoLast
       /\ nops = 0

SpecRatio == InitRatio /\ [][NextPanel]_vars

\* the nested grid that the call created
NewGrid == gspecs[Len(gspecs)]

\* the extent that a nested grid distributes among its cells along x (y):
\* the size of the target cell less the spaces between the columns (rows)
DistributedX ==
    SubspecWidth(fig, gridspec, req.subspec)
        - fill(req.wspace, DefaultSpace) * (NewGrid.ncols - 1)
DistributedY ==
    SubspecHeight(fig, gridspec, req.subspec)
        - fill(req.hspace, DefaultSpace) * (NewGrid.nrows - 1)

\* a right panel alone, 0.3 in wide, on the cell 3 in wide
RightPanelOnly ==
    /\ last.op = "panel_factory" /\ last.raised = ""
    /\ pf_translate(req.whichpanels) = <<"r">>
    /\ fill(req.wwidth, DefaultWidth) = 30
    /\ SubspecWidth(fig, gridspec, req.subspec) = 300

RatiosAddUp ==
    (last.op = "panel_factory" /\ last.raised = "") =>
        /\ Sum(NewGrid.width_ratios) = DistributedX
        /\ Sum(NewGrid.height_ratios) = DistributedY

\* C21 as stated: a cell 3 in wide with a 0.3 in right panel gets the width
\* ratios 2.7 : 0.3, and on each axis the ratio of the main cell plus the
\* ratios of the panel cells is the extent the nested grid distributes.
C21_RatiosOfWholeCell ==
    /\ RightPanelOnly => NewGrid.width_ratios = <<270, 30>>
    /\ RatiosAddUp

\* C21, amended: on each axis the ratio of the main cell plus the ratios of
\* the panel cells is the extent the nested grid distributes, which is the
\* target cell less the space between the cells; a cell 3 in wide with a
\* 0.3 in right panel gets the ratios (3 - wspace - 0.3) : 0.3, which is
\* 2.57 : 0.3 with the default space of 0.13 in and 2.7 : 0.3 only when the
\* space is 0.
C21_RatiosOfCellLessSpace ==
    /\ RightPanelOnly =>
          NewGrid.width_ratios = <<300 - fill(req.wspace, DefaultSpace) - 30, 30>>
    /\ RatiosAddUp

\* the right panel with the default space: the ratios are 2.57 : 0.3
C21_Witness ==
    /\ RightPanelOnly /\ req.wspace = NoArg
    /\ NewGrid.width_ratios = <<257, 30>>

----------------------------------------------------------------------------
(* The figure title at the moment of painting (specification SpecDraw) *)

\* a / b = c / d for naturals with b, d > 0, by the continued fractions of
\* the two sides (no product that could leave the range of the integers)
RECURSIVE SameFraction(_, _, _, _)
SameFraction(a, b, c, d) ==
    /\ a \div b = c \div d
    /\ IF a % b = 0 \/ c % d = 0 THEN a % b = 0 /\ c % d = 0
       ELSE SameFraction(b, a % b, d, c % d)

\* the title is where _suptitle_setup puts it for figure f, settings k and
\* grid g
TitleCurrent(f, k, g, ax) ==
    LET p == suptitle_position(f, k, g, draw_offset(ax))
    IN /\ SameFraction(f.suptitle.x[1], f.suptitle.x[2], p.x[1], p.x[2])
       /\ SameFraction(f.suptitle.y[1], f.suptitle.y[2], p.y[1], p.y[2])

\* C22: whenever draw hands over to the backend to paint, the position of
\* the figure title is the one computed from the margins, the grid and the
\* canvas in effect at that moment, also when the tighten pass of the same
\* draw has changed them.
C22_TitleFromCurrentGeometry ==
    [][(DrawStep /\ last'.painted) => TitleCurrent(fig', skw', gridspec', axes')]_vars

----------------------------------------------------------------------------
(* BaseAxes._panel_setup, and the specification SpecSetup: span groups     *)
(* and panel setups on the figure of SpecLink.                             *)

\* lines 1095-1096
panel_setup_right(w, rp, left) == sharex_setup(w, rp, left)

\* the one element of a set of one element
Only(S) == CHOOSE x \in S : TRUE

\* lines 1088-1096: the share links, each made on the result of the one
\* before
panel_setup_links(w, self) ==
    LET a == w.axes[self]
        bottom == IF Truthy(a.bottompanel) THEN a.bottompanel ELSE self
        left == IF Truthy(a.leftpanel) THEN a.leftpanel ELSE self
    IN Only({ IF Truthy(a.rightpanel) THEN panel_setup_right(w3, a.rightpanel, left) ELSE w3 :
         w3 \in { IF Truthy(a.toppanel) THEN sharex_setup(w2, a.toppanel, bottom) ELSE w2 :
           w2 \in { IF Truthy(a.leftpanel) THEN sharey_setup(w1, self, a.leftpanel) ELSE w1 :
             w1 \in { IF Truthy(a.bottompanel) THEN sharex_setup(w, self, a.bottompanel)
                      ELSE w } } } })

\* lines 1097-1104: the span groups of the bottom and the left panel, on the
\* axes ax that the links left; a is the axes as it was at the call
panel_setup_spans(g, ax, a) ==
    LET notnone(p) == p # NoneRef
        bpanels == SelectSeq([i \in DOMAIN a.spanx_group |->
                                 ax[a.spanx_group[i]].bottompanel], notnone)
        lpanels == SelectSeq([i \in DOMAIN a.spany_group |->
                                 ax[a.spany_group[i]].leftpanel], notnone)
    IN Only({ IF s1.raised = "" /\ Truthy(a.leftpanel) /\ a.spany_group # <<>>
              THEN spany_setup(g, s1.axes, a.leftpanel, lpanels)
              ELSE s1 :
         s1 \in { IF Truthy(a.bottompanel) /\ a.spanx_group # <<>>
                  THEN spanx_setup(g, ax, a.bottompanel, bpanels)
                  ELSE [axes |-> ax, raised |-> ""] } })

\* lines 1085-1104
panel_setup(g, w, self) ==
    Only({ LET s == Only({panel_setup_spans(g, ax, w.axes[self]) : ax \in {w4.axes}})
           IN [axes |-> s.axes, sx |-> w4.sx, sy |-> w4.sy, raised |-> s.raised] :
        w4 \in {panel_setup_links(w, self)} })

PanelSetup(self) ==
    /\ nops < MaxOps
    /\ LET r == panel_setup(gridspec, World(axes, sharedx, sharedy), self)
       IN /\ axes' = r.axes
          /\ sharedx' = r.sx
          /\ sharedy' = r.sy
          /\ last' = [op |-> "panel_setup", self |-> self, raised |-> r.raised]
    /\ nops' = nops + 1
    /\ UNCHANGED layoutvars

NextSetup ==
    \/ \E a \in Mains : PanelSetup(a)
    \/ \E a \in Mains, grp \in SpanGroups : SpanX(a, grp)
    \/ \E a \in Mains, grp \in SpanGroups : SpanY(a, grp)

SpecSetup == InitLink /\ [][NextSetup]_vars

SetupStep == nops' = nops + 1 /\ last'.op = "panel_setup"

\* what _panel_setup links the right panel of axes i to
LeftOf(i) == IF Truthy(axes[i].leftpanel) THEN axes[i].leftpanel ELSE i

\* C23: _panel_setup links a right panel on the y axis: after it the right
\* panel is in the y group of the left panel (of the main axes when there is
\* no left panel), and its x group has not been joined with theirs.
C23_RightPanelSharesY ==
    [][(SetupStep /\ Truthy(axes[last'.self].rightpanel)) =>
           LET rp == axes[last'.self].rightpanel
               lp == LeftOf(last'.self)
           IN /\ joined(sharedy', rp, lp)
              /\ ~joined(sharedx, rp, lp) => ~joined(sharedx', rp, lp)
    ]_vars

----------------------------------------------------------------------------
(* The recursion guard of BasemapAxes.  A call of a plotting method of a   *)
(* basemap axes goes through __getattribute__, which wraps the basemap     *)
(* version of the method in _no_recurse.  When the basemap version calls   *)
(* the method of the axes back, the guard sends that inner call to the     *)
(* parent Axes method.  What a call meets is its behaviour beh: whether    *)
(* the basemap version calls back (inner), whether the parent method       *)
(* raises, and whether the basemap version itself raises.                  *)

LineMethods == {"plot", "scatter"}                                  \* lines 86-88
EdgeMethods == {"pcolor", "pcolorpoly", "pcolormesh"}               \* lines 89-91
CenterMethods == {"contour", "contourf", "quiver", "streamplot", "barbs"}  \* 92-94

Behaviours == [inner : BOOLEAN, parent_raises : BOOLEAN, func_raises : BOOLEAN]

Raised(b) == IF b THEN "Exception" ELSE ""

\* lines 414-435: the decorator, entered with the flag at recurred; the
\* result is the flag when the call has finished, the implementation the
\* call was sent to, and the exception that left it
no_recurse(recurred, beh) ==
    IF recurred
    THEN \* lines 423-427, then 433 unless the parent method raised
         [recurred |-> FALSE, via |-> "parent", raised |-> Raised(beh.parent_raises)]
    ELSE \* lines 428-432: the flag is set and the basemap version runs
         IF beh.inner
         THEN \* the inner call enters the decorator with the flag set and
              \* clears it at line 426, before the parent method runs
              [recurred |-> FALSE, via |-> "basemap",
               raised |-> Raised(beh.parent_raises \/ beh.func_raises)]
         ELSE \* line 433 is reached only when the basemap version returns
              [recurred |-> beh.func_raises, via |-> "basemap",
               raised |-> Raised(beh.func_raises)]

\* BasemapAxes.__getattribute__ (lines 1840-1857) and the call of what it
\* returns
basemap_call(a, attr, beh) ==
    LET name == IF attr = "pcolorpoly" THEN "pcolor" ELSE attr
    IN IF name \in LineMethods \cup EdgeMethods \cup CenterMethods
       THEN no_recurse(a.recurred, beh)
       ELSE [recurred |-> a.recurred, via |-> "plain", raised |-> Raised(beh.parent_raises)]

CalledMethods == {"plot", "pcolorpoly", "contourf", "set_title"}

InitGuard ==
    LET r == gridspec_kwargs(LinkSettings)
    IN /\ fig = FigureInit(r.figsize, TRUE, 10, {})
       /\ skw = LinkSettings
       /\ gridspec = r.kw
       /\ canvas = r.figsize
       /\ axes = << NewAxes("basemap", "", NoneRef, 0, 0, 0, <<0, 0>>, WholeCell),
                    NewAxes("basemap", "", NoneRef, 0, 0, 1, <<0, 1>>, WholeCell) >>
       /\ gspecs = <<>>
       /\ sharedx = {}
       /\ sharedy = {}
       /\ bbox = NoBbox
       /\ req = [op |-> "call"]
       /\ last = NoLast
       /\ nops = 0

MethodCall(i, attr, beh) ==
    /\ nops < MaxOps
    /\ axes[i].kind = "basemap"
    /\ LET r == basemap_call(axes[i], attr, beh)
       IN /\ axes' = [axes EXCEPT ![i].recurred = r.recurred]
          /\ last' = [op |-> "call", self |-> i, attr |-> attr, via |-> r.via,
                      raised |-> r.raised]
    /\ nops' = nops + 1
    /\ UNCHANGED <<layoutvars, sharedx, sharedy>>

NextGuard ==
    \E i \in DOMAIN axes, attr \in CalledMethods, beh \in Behaviours : MethodCall(i, attr, beh)

SpecGuard == InitGuard /\ [][NextGuard]_vars

\* an outer call of a guarded plotting method has finished
GuardedStep == nops' = nops + 1 /\ last'.op = "call" /\ last'.via # "plain"

\* C24: whenever a call made through the guard has finished, by returning or
\* by raising, the flag _recurred is False, so every outer call of a guarded
\* method is sent to the basemap implementation.
C24_GuardAlwaysReset ==
    [][GuardedStep => (~axes'[last'.self].recurred /\ last'.via = "basemap")]_vars

----------------------------------------------------------------------------
(* proplot/axes/geo.py: GeoAxes._parse_labels and the gridliner patch      *)
(* _add_gridline_label.  A label spec is None, a boolean, a string (a      *)
(* sequence of characters) or a tuple of booleans; booleans are the        *)
(* integers 0 and 1, as numpy holds them.  Longitudes are whole degrees.   *)

MaxLabels == 5      \* length of a tuple of labels
MaxLon == 540       \* largest longitude handed to the gridliner

LabelNone == [kind |-> "none", chars |-> <<>>, vals |-> <<>>]
LabelBool(b) == [kind |-> "bool", chars |-> <<>>, vals |-> <<b>>]
LabelString(cs) == [kind |-> "str", chars |-> cs, vals |-> <<>>]
LabelTuple(vs) == [kind |-> "tuple", chars |-> <<>>, vals |-> vs]

\* mutant: the two sides of a pair as the docstring of format has them
pair_sides_doc(array, lon) ==
    IF lon THEN array \o <<0, 0>> ELSE <<0, 0>> \o array

\* lines 288-291
pair_sides(array, lon) ==
    IF lon THEN <<0, 0>> \o array ELSE array \o <<0, 0>>

\* lines 271-295
parse_labels(labels, lon) ==
    IF labels.kind = "none" THEN [none |-> TRUE, raised |-> "", array |-> <<>>]
    ELSE
      LET sides == <<"l", "r", "b", "t">>
          a0 == IF labels.kind = "str"
                THEN [i \in 1..4 |-> IF sides[i] \in Range(labels.chars) THEN 1 ELSE 0]
                ELSE labels.vals
          a1 == IF Len(a0) = 1 THEN a0 \o <<0>> ELSE a0
      IN IF Len(a1) = 2
         THEN [none |-> FALSE, raised |-> "", array |-> pair_sides(a1, lon)]
         ELSE IF Len(a1) # 4
         THEN [none |-> FALSE, raised |-> "ValueError", array |-> <<>>]
         ELSE [none |-> FALSE, raised |-> "", array |-> a1]

\* mutant: the wrap that keeps 180 and turns -180 into 180
wrap_lon_upper(value) == 180 - ((180 - value) % 360)

\* line 324
wrap_lon(value) == ((value + 180) % 360) - 180

\* lines 310-325: the value handed on to the gridliner's own method
add_gridline_label(value, axis) == IF axis = "x" THEN wrap_lon(value) ELSE value

LabelChars == {"l", "r", "b", "t", "x"}

LabelSpecs ==
    {LabelNone} \cup {LabelBool(b) : b \in {0, 1}}
      \cup {LabelString(cs) : cs \in UNION {[1..n -> LabelChars] : n \in 0..2}}
      \cup {LabelString(<<"l", "r", "b">>), LabelString(<<"t", "b", "r", "l">>)}
      \cup {LabelTuple(vs) : vs \in UNION {[1..n -> {0, 1}] : n \in 0..MaxLabels}}

InitGeo ==
    /\ fig = FigureInit(<<100, 100>>, FALSE, 10, {})
    /\ skw = NoSettings
    /\ gridspec = NoGridSpec
    /\ canvas = <<100, 100>>
    /\ axes = <<>>
    /\ gspecs = <<>>
    /\ sharedx = {}
    /\ sharedy = {}
    /\ bbox = NoBbox
    /\ \/ \E labels \in LabelSpecs, lon \in BOOLEAN :
             req = [op |-> "parse", labels |-> labels, lon |-> lon,
                    value |-> 0, axis |-> "x"]
       \/ \E value \in (0 - MaxLon)..MaxLon, axis \in {"x", "y"} :
             req = [op |-> "label", labels |-> LabelNone, lon |-> FALSE,
                    value |-> value, axis |-> axis]
    /\ last = NoLast
    /\ nops = 0

ParseLabels ==
    /\ nops = 0 /\ req.op = "parse"
    /\ LET r == parse_labels(req.labels, req.lon)
       IN last' = [op |-> "parse", raised |-> r.raised, none |-> r.none,
                   array |-> r.array, value |-> 0]
    /\ nops' = 1
    /\ UNCHANGED <<layoutvars, axes, sharedx, sharedy>>

\* the patched method, called on what it handed on once more at the end
AddGridlineLabel ==
    /\ nops < 2 /\ req.op = "label"
    /\ last' = [op |-> "label", raised |-> "", none |-> FALSE, array |-> <<>>,
                value |-> add_gridline_label(IF nops = 0 THEN req.value ELSE last.value,
                                             req.axis)]
    /\ nops' = nops + 1
    /\ UNCHANGED <<layoutvars, axes, sharedx, sharedy>>

NextGeo == ParseLabels \/ AddGridlineLabel

SpecGeo == InitGeo /\ [][NextGeo]_vars

Parsed == last.op = "parse"

\* what the docstring of format says of every spec but a pair
ParsedAsDocumented ==
    LET l == req.labels
        has(ch) == IF ch \in Range(l.chars) THEN 1 ELSE 0
    IN /\ l.kind = "none" => (last.none /\ last.raised = "")
       /\ l.kind = "bool" =>
             (last.raised = "" /\ ~last.none /\
              last.array = IF req.lon THEN <<0, 0, l.vals[1], 0>>
                           ELSE <<l.vals[1], 0, 0, 0>>)
       /\ l.kind = "str" =>
             (last.raised = "" /\ ~last.none /\
              last.array = <<has("l"), has("r"), has("b"), has("t")>>)
       /\ (l.kind = "tuple" /\ Len(l.vals) = 4) =>
             (last.raised = "" /\ ~last.none /\ last.array = l.vals)
       /\ (l.kind = "tuple" /\ Len(l.vals) = 1) =>
             (last.raised = "" /\ ~last.none /\
              last.array = IF req.lon THEN <<0, 0, l.vals[1], 0>>
                           ELSE <<l.vals[1], 0, 0, 0>>)
       /\ (l.kind = "tuple" /\ Len(l.vals) \notin {1, 2, 4}) => last.raised = "ValueError"

IsPair == req.labels.kind = "tuple" /\ Len(req.labels.vals) = 2

Labelled == last.op = "label" /\ req.axis = "x"

\* congruent modulo 360
Congruent(v, w) == (v - w) % 360 = 0

\* C26 as stated: every longitude handed on lies in (-180, 180], is congruent
\* to the input modulo 360, and is a fixed point of the wrap; latitudes are
\* handed on unchanged.
C26_WrapUpperClosed ==
    /\ Labelled =>
          /\ 0 - 180 < last.value /\ last.value <= 180
          /\ Congruent(req.value, last.value)
          /\ add_gridline_label(last.value, "x") = last.value
    /\ (last.op = "label" /\ req.axis = "y") => last.value = req.value

\* C26, amended: every longitude handed on lies in [-180, 180), 180 itself
\* becoming -180, is congruent to the input modulo 360, and is a fixed point
\* of the wrap; latitudes are handed on unchanged.
C26_WrapLowerClosed ==
    /\ Labelled =>
          /\ 0 - 180 <= last.value /\ last.value < 180
          /\ Congruent(req.value, last.value)
          /\ add_gridline_label(last.value, "x") = last.value
    /\ (last.op = "label" /\ req.axis = "y") => last.value = req.value

\* the longitude 180 has been handed on as -180, twice
C26_Witness ==
    /\ Labelled /\ nops = 2 /\ req.value = 180 /\ last.value = 0 - 180

----------------------------------------------------------------------------
(* The one-shot flag and the stored size (specification SpecDraw) *)

C28_StoredSizeIsCanvas ==
    fig.width = canvas[1] /\ fig.height = canvas[2]

----------------------------------------------------------------------------
(* Panel slots and accepted requests (specification SpecPanel) *)

\* C29: in every reachable state each of the four panel slots of every axes
\* holds a panel or the EmptyPanel placeholder, never None.
C29_SlotsNeverNone ==
    \A i \in DOMAIN axes :
        /\ axes[i].bottompanel # NoneRef /\ axes[i].toppanel # NoneRef
        /\ axes[i].leftpanel # NoneRef /\ axes[i].rightpanel # NoneRef

\* C30: every request that passes the validation of panel_factory takes
\* effect: for every character of an accepted value, upper-case letters
\* included, a panel is created on the side the character names.
C30_AcceptedTakesEffect ==
    (last.op = "panel_factory" /\ last.raised = "") =>
        \A ch \in Range(pf_translate(req.whichpanels)) :
            \E p \in CreatedPanels : axes[p].panelside = pf_side_name(Lower(ch))

====
